---- MODULE Spec2Model ----
(***************************************************************************)
(* The per-deployment indexing engine of core/src/subgraph/                *)
(* instance_manager.rs: the instance manager (start_subgraph,              *)
(* stop_subgraph, the registry of cancel guards and the deployment_count   *)
(* gauge), the indexing loop run_subgraph, and process_block with its      *)
(* helpers.  One deployment ("d1") is started and indexed by one loop      *)
(* thread; the manager's callers run concurrently with the loop thread.    *)
(*                                                                         *)
(* Collaborators that live outside instance_manager.rs (block stream,      *)
(* store, mapping runtime, EntityCache, LfuCache, SubgraphInstance) are    *)
(* modelled by their contract; every fallible call has both outcomes.      *)
(***************************************************************************)
EXTENDS Integers, Sequences, FiniteSets, TLC

\* ---------------------------------------------------------------- bounds
MaxBlock == 2          \* highest block number the chain offers
MaxTriggers == 2       \* most triggers in one block of the stream
MaxNewTriggers == 1    \* most triggers one expansion iteration refetches
MaxStreams == 2        \* most block streams (cancel guards) one loop builds
MaxStops == 1          \* most stop_subgraph calls in one behaviour
MaxChainTriggers == 3  \* most triggers the chain holds in one block

\* ------------------------------------------------------------- constants
GRAPH_ENTITY_CACHE_SIZE == 10000
ENTITY_CACHE_SIZE == 1000 * GRAPH_ENTITY_CACHE_SIZE

DeploymentIds == {"d1"}
Indexed == "d1"                  \* the deployment whose loop is modelled
NoGuard == 0                     \* registry slot without a CancelGuard
Threads == {1, 2}                \* run_subgraph threads of the deployment
Keys == {"e"}                    \* entity keys the mappings write
NotCached == -1                  \* key absent from a cache / not written
NoEntity == 0                    \* Option<Entity> = None
Entity == 1
Handlers == {"Set", "Remove", "Fail", "Reorg", "Unknown", "Create"}
EntityWeight == 100              \* bytes one cached entry weighs

VARIABLES
    \* SubgraphInstanceManager
    instances,          \* SharedInstanceKeepAliveMap: id -> guard (NoGuard = absent)
    subgraph_count,     \* the deployment_count gauge
    start_pc,           \* start_subgraph: "init", "started", "failed"
    stops,              \* number of stop_subgraph calls so far
    \* cancel guards
    canceled,           \* guards that have been dropped
    streams,            \* guards created so far; the loop's current guard is `streams`
    stream_filters,     \* the filters the current block stream was built with
    \* run_subgraph
    pc,                 \* position of the loop thread
    first_run,
    event,              \* last item read from the block stream, with the
                        \* outcome of a Revert or of a failed expansion dispatch
    res,                \* result of process_block
    \* IndexingState
    hosts,              \* instance: sequence of [name, created_at]
    filters,            \* log/call/block filters: data sources merged into them
    entity_lfu_cache,
    reverted_blocks,    \* block_stream_metrics.reverted_blocks gauge
    \* process_block locals
    block,              \* [number, parent]
    block_state,        \* BlockState
    needs_restart,
    proof_of_indexing,  \* TRUE = Some(..)
    \* IndexingInputs / environment
    nonFatalErrors,     \* features contains nonFatalErrors
    DISABLE_FAIL_FAST,
    \* store
    store_ptr,          \* deployment block pointer (number)
    store_entities,     \* entity state after each block 0..store_ptr
    transact_args,      \* transact_block_operations call of the current block
    synced_reply,       \* is_deployment_synced answer for the current block
    unassign_calls,     \* sequence of the outcomes (TRUE = Ok) of unassign_subgraph
    unfail_calls,
    fail_subgraph_calls,\* sequence of the `deterministic` flags passed
    \* history
    last_commit_number, \* number of the latest successful commit (0 = none)
    \* process_triggers and the expansion loop, one trigger at a time
    trigger_iter,       \* triggers.into_iter(): the triggers still to dispatch
    runtime_hosts,      \* the data sources each iteration so far instantiated
    iteration,          \* expansion iterations started in this block
    dispatched,         \* the process_trigger calls made for this block, in order
    \* proof of indexing
    poi_supported,      \* the store has a POI table for the deployment
    poi_streams,        \* ProofOfIndexing: its block number and per-region streams
    poi_cache,          \* the POI entities set in the block's EntityCache
    poi_store,          \* the POI entities committed in the store
    \* cache eviction, with byte weights
    cache_size_env,     \* GRAPH_ENTITY_CACHE_SIZE as parsed from the environment
    modified_cache,     \* ModificationsAndCache.entity_lfu_cache before evict
    state_lfu_cache,    \* ctx.state.entity_lfu_cache, entries with weights
    \* the registry with several loop threads of one deployment
    loop_pc,            \* position of each spawned run_subgraph thread
    loop_guard          \* the CancelGuard each thread created last

vars == <<instances, subgraph_count, start_pc, stops, canceled, streams,
          stream_filters, pc,
          first_run, event, res, hosts, filters, entity_lfu_cache,
          reverted_blocks, block, block_state, needs_restart,
          proof_of_indexing, nonFatalErrors, DISABLE_FAIL_FAST,
          store_ptr, store_entities, transact_args, synced_reply,
          unassign_calls, unfail_calls, fail_subgraph_calls,
          last_commit_number, trigger_iter, runtime_hosts, iteration,
          dispatched, poi_supported, poi_streams, poi_cache, poi_store,
          cache_size_env, modified_cache, state_lfu_cache,
          loop_pc, loop_guard>>

managerVars == <<instances, subgraph_count, start_pc, stops>>
ctxVars == <<hosts, filters, entity_lfu_cache, reverted_blocks>>
blockVars == <<block, block_state, needs_restart, proof_of_indexing>>
configVars == <<nonFatalErrors, DISABLE_FAIL_FAST>>
dispatchVars == <<trigger_iter, runtime_hosts, iteration, dispatched>>
poiVars == <<poi_supported, poi_streams, poi_cache, poi_store>>
evictVars == <<cache_size_env, modified_cache, state_lfu_cache>>
registryVars == <<loop_pc, loop_guard>>
storeVars == <<store_ptr, store_entities, transact_args, synced_reply,
               unassign_calls, unfail_calls, fail_subgraph_calls,
               last_commit_number>>

\* ------------------------------------------------------------ data model
EmptyCache == [k \in Keys |-> NotCached]
EmptyEntities == [k \in Keys |-> NoEntity]
NoBlock == [number |-> 0, parent |-> 0]
NoEvent == [type |-> "None", ptr |-> 0, outcome |-> "none"]
NoResult == [type |-> "None", restart |-> FALSE, error |-> 0]
NoCall == [called |-> FALSE, ptr |-> 0, mods |-> EmptyCache,
           data_sources |-> <<>>, errors |-> <<>>]

\* Causality regions, the POI entity type, an absent ProofOfIndexing and
\* the absence of POI entities (an Option is a sequence of length 0 or 1)
Regions == {"r1", "r2"}
POI_OBJECT == "Poi$"
NoProofOfIndexing == [block_number |-> 0, streams |-> [r \in Regions |-> <<>>]]
NoPoiEntities == [r \in Regions |-> <<>>]

\* An LfuCache whose entries carry their byte weight and use frequency
\* (an absent entry weighs nothing)
LfuKeys == {"k1", "k2", "k3"}
NoEntry == [weight |-> 0, freq |-> 0]
NoWeightedCache == [k \in LfuKeys |-> NoEntry]

\* BlockState::new(store, lfu_cache)
NewBlockState(lfu) ==
    [writes |-> EmptyCache, lfu |-> lfu, errors |-> <<>>, created |-> <<>>,
     data_sources |-> <<>>]

SeqsUpTo(S, n) == UNION {[1..m -> S] : m \in 0..n}

\* The trigger lists a block of the stream can carry, and the trigger lists
\* triggers_in_block can return for newly created data sources
BlockTriggers == SeqsUpTo(Handlers, MaxTriggers)
NewTriggers == SeqsUpTo(Handlers, MaxNewTriggers)

RECURSIVE SeqToSet(_)
SeqToSet(s) == IF s = <<>> THEN {} ELSE {Head(s)} \cup SeqToSet(Tail(s))

HostNames(hs) == {hs[i].name : i \in 1..Len(hs)}

\* CancelHandle::is_canceled
IsCanceled(g) == g \in canceled

\* BlockPtrAfter taken from the parent pointer instead of the block itself
BlockPtrAfter_Parent(b) == b.parent

\* EthereumBlockPointer::from(&block), the pointer after the block
BlockPtrAfter(b) == b.number

\* block.parent_ptr()
ParentPtr(b) == b.parent

\* The block the adapter loads for a pointer
LoadedBlock(ptr) == [number |-> ptr, parent |-> ptr - 1]

\* ------------------------------------------------------- mapping runtime
\* RuntimeHost::process_trigger: what each handler does to the block state.
\* A deterministic handler failure is recorded in the state (the n-th error
\* of the block is error n); PossibleReorg and Unknown are MappingErrors.
ProcessTrigger(trigger, state) ==
    CASE trigger = "Set" ->
            [status |-> "Ok", state |-> [state EXCEPT !.writes["e"] = Entity]]
      [] trigger = "Remove" ->
            [status |-> "Ok", state |-> [state EXCEPT !.writes["e"] = NoEntity]]
      [] trigger = "Fail" ->
            [status |-> "Ok",
             state |-> [state EXCEPT !.errors = Append(@, Len(@) + 1)]]
      [] trigger = "Create" ->
            [status |-> "Ok", state |-> [state EXCEPT !.created = Append(@, "A")]]
      [] trigger = "CreateB" ->
            [status |-> "Ok", state |-> [state EXCEPT !.created = Append(@, "B")]]
      [] trigger = "Reorg" ->
            [status |-> "PossibleReorg", state |-> state]
      [] OTHER ->
            [status |-> "Unknown", state |-> state]

\* process_triggers: one trigger after the other, each on the state the
\* previous one returned, stopping at the first MappingError.
RECURSIVE ProcessTriggers(_, _)
ProcessTriggers(state, triggers) ==
    IF triggers = <<>>
    THEN [status |-> "Ok", state |-> state]
    ELSE LET r == ProcessTrigger(Head(triggers), state)
         IN  IF r.status # "Ok"
             THEN r
             ELSE ProcessTriggers(r.state, Tail(triggers))

\* ------------------------------------------------------ dynamic sources
\* create_dynamic_data_sources that instantiates a created data source
\* also when its runtime host exists
RECURSIVE CreateDynamicDataSources_NoSkip(_, _, _, _)
CreateDynamicDataSources_NoSkip(hs, created, number, acc) ==
    IF created = <<>>
    THEN [hosts |-> hs, data_sources |-> acc]
    ELSE CreateDynamicDataSources_NoSkip(
             Append(hs, [name |-> Head(created), created_at |-> number]),
             Tail(created), number, Append(acc, Head(created)))

\* create_dynamic_data_sources: instantiate each created data source in
\* order; one whose runtime host already exists is skipped.
RECURSIVE CreateDynamicDataSources(_, _, _, _)
CreateDynamicDataSources(hs, created, number, acc) ==
    IF created = <<>>
    THEN [hosts |-> hs, data_sources |-> acc]
    ELSE LET name == Head(created)
         IN  IF name \in HostNames(hs)
             THEN CreateDynamicDataSources(hs, Tail(created), number, acc)
             ELSE CreateDynamicDataSources(
                      Append(hs, [name |-> name, created_at |-> number]),
                      Tail(created), number, Append(acc, name))

\* SubgraphInstance::revert_data_sources(reverted_block): hosts is ordered by
\* creation block; dynamic hosts created at or after the reverted block go.
RECURSIVE RevertDataSources(_, _)
RevertDataSources(hs, reverted_block) ==
    IF hs # <<>> /\ hs[Len(hs)].created_at >= reverted_block
    THEN RevertDataSources(SubSeq(hs, 1, Len(hs) - 1), reverted_block)
    ELSE hs

\* ----------------------------------------------------------- entity cache
CurrentEntities == store_entities[Len(store_entities)]

\* EntityCache::as_modifications: the writes that change the current value
\* (read through the LFU cache, then the store), the data sources to persist
\* and the LFU cache updated with the post-block values.
AsModifications(state) ==
    LET current(k) == IF state.lfu[k] # NotCached THEN state.lfu[k]
                      ELSE CurrentEntities[k]
    IN  [mods |-> [k \in Keys |->
                      IF state.writes[k] # NotCached /\ state.writes[k] # current(k)
                      THEN state.writes[k] ELSE NotCached],
         data_sources |-> state.data_sources,
         entity_lfu_cache |-> [k \in Keys |->
                      IF state.writes[k] # NotCached THEN state.writes[k]
                      ELSE state.lfu[k]]]

RECURSIVE CacheWeight(_, _)
CacheWeight(cache, ks) ==
    IF ks = {} THEN 0
    ELSE LET k == CHOOSE x \in ks : TRUE
         IN  (IF cache[k] = NotCached THEN 0 ELSE EntityWeight)
             + CacheWeight(cache, ks \ {k})

\* LfuCache::evict(max_weight): drop entries until the weight fits.
RECURSIVE Evict(_, _)
Evict(cache, max_weight) ==
    IF CacheWeight(cache, Keys) <= max_weight
    THEN cache
    ELSE LET k == CHOOSE x \in Keys : cache[x] # NotCached
         IN  Evict([cache EXCEPT ![k] = NotCached], max_weight)

\* The store applying a batch of modifications
ApplyMods(entities, mods) ==
    [k \in Keys |-> IF mods[k] # NotCached THEN mods[k] ELSE entities[k]]

\* The store applying revert_block_operations(parent)
RevertedEntities(entities, parent) == SubSeq(entities, 1, parent + 1)

\* The store applying transact_block_operations at pointer ptr
TransactedEntities(entities, ptr, mods) ==
    Append(SubSeq(entities, 1, ptr), ApplyMods(entities[Len(entities)], mods))

\* FirstError reporting the last error of the block instead of the first
FirstError_Last(errors) == errors[Len(errors)]

\* block_state.deterministic_errors.into_iter().next().unwrap()
FirstError(errors) == Head(errors)

\* is_deterministic that also answers true for Unknown
IsDeterministic_AnyError(r) == r.type \in {"Deterministic", "Unknown"}

\* BlockProcessingError::is_deterministic
IsDeterministic(r) == r.type = "Deterministic"

Unknown == [type |-> "Unknown", restart |-> FALSE, error |-> 0]
Canceled == [type |-> "Canceled", restart |-> FALSE, error |-> 0]
Deterministic(e) == [type |-> "Deterministic", restart |-> FALSE, error |-> e]
Ok(restart) == [type |-> "Ok", restart |-> restart, error |-> 0]

\* ------------------------------------------------------------------ Init
Init ==
    /\ instances = [d \in DeploymentIds |-> NoGuard]
    /\ subgraph_count = 0
    /\ start_pc = "init"
    /\ stops = 0
    /\ canceled = {}
    /\ streams = 0
    /\ stream_filters = {}
    /\ pc = "idle"
    /\ first_run = TRUE
    /\ event = NoEvent
    /\ res = NoResult
    /\ hosts = <<[name |-> "S", created_at |-> -1]>>
    /\ filters = {"S"}
    /\ entity_lfu_cache = EmptyCache
    /\ reverted_blocks = 0
    /\ block = NoBlock
    /\ block_state = NewBlockState(EmptyCache)
    /\ needs_restart = FALSE
    /\ proof_of_indexing = FALSE
    /\ nonFatalErrors \in BOOLEAN
    /\ DISABLE_FAIL_FAST \in BOOLEAN
    /\ store_ptr = 0
    /\ store_entities = <<EmptyEntities>>
    /\ transact_args = NoCall
    /\ synced_reply = "none"
    /\ unassign_calls = <<>>
    /\ unfail_calls = 0
    /\ fail_subgraph_calls = <<>>
    /\ last_commit_number = 0
    /\ trigger_iter = <<>>
    /\ runtime_hosts = <<>>
    /\ iteration = 0
    /\ dispatched = <<>>
    /\ poi_supported = FALSE
    /\ poi_streams = NoProofOfIndexing
    /\ poi_cache = NoPoiEntities
    /\ poi_store = NoPoiEntities
    /\ cache_size_env = GRAPH_ENTITY_CACHE_SIZE
    /\ modified_cache = NoWeightedCache
    /\ state_lfu_cache = NoWeightedCache
    /\ loop_pc = [t \in Threads |-> "idle"]
    /\ loop_guard = [t \in Threads |-> NoGuard]

\* ---------------------------------------------------- instance manager
\* start_subgraph when start_subgraph_inner returns Ok: the context is built,
\* the loop thread is spawned and the gauge is incremented.
StartSubgraph ==
    /\ start_pc = "init"
    /\ start_pc' = "started"
    /\ pc' = "build"
    /\ subgraph_count' = subgraph_count + 1
    /\ UNCHANGED <<instances, stops, canceled, streams, stream_filters, first_run, event, res>>
    /\ UNCHANGED <<ctxVars, blockVars, configVars, dispatchVars, poiVars, evictVars, registryVars, storeVars>>

\* A failed start that still increments the gauge
StartSubgraphFailed_Counts ==
    /\ start_pc = "init"
    /\ start_pc' = "failed"
    /\ subgraph_count' = subgraph_count + 1
    /\ UNCHANGED <<instances, stops, canceled, streams, stream_filters, pc,
                   first_run, event, res>>
    /\ UNCHANGED <<ctxVars, blockVars, configVars, dispatchVars, poiVars, evictVars, registryVars, storeVars>>

\* start_subgraph when start_subgraph_inner returns Err (manifest, chain
\* store, adapter, start_subgraph_deployment or from_manifest): logged only.
StartSubgraphFailed ==
    /\ start_pc = "init"
    /\ start_pc' = "failed"
    /\ UNCHANGED <<instances, subgraph_count, stops, canceled, streams, stream_filters, pc,
                   first_run, event, res>>
    /\ UNCHANGED <<ctxVars, blockVars, configVars, dispatchVars, poiVars, evictVars, registryVars, storeVars>>

\* stop_subgraph(id)
StopSubgraph(id) ==
    /\ stops < MaxStops
    /\ stops' = stops + 1
    /\ instances' = [instances EXCEPT ![id] = NoGuard]
    /\ canceled' = IF instances[id] # NoGuard
                   THEN canceled \cup {instances[id]} ELSE canceled
    /\ subgraph_count' = subgraph_count - 1
    /\ UNCHANGED <<start_pc, streams, stream_filters, pc, first_run, event, res>>
    /\ UNCHANGED <<ctxVars, blockVars, configVars, dispatchVars, poiVars, evictVars, registryVars, storeVars>>

\* ------------------------------------------------------- run_subgraph
loopVars == <<streams, stream_filters, first_run, event>>

\* CancelGuard::new(), stream_builder.build(..).cancelable(..)
BuildStream ==
    /\ pc = "build"
    /\ streams < MaxStreams
    /\ streams' = streams + 1
    /\ stream_filters' = filters
    /\ pc' = "insert"
    /\ UNCHANGED <<managerVars, canceled, first_run, event, res>>
    /\ UNCHANGED <<ctxVars, blockVars, configVars, dispatchVars, poiVars, evictVars, registryVars, storeVars>>

\* instances.write().insert(deployment_id, block_stream_canceler); a guard
\* the map held before is returned by insert and dropped.
InsertGuard ==
    /\ pc = "insert"
    /\ instances' = [instances EXCEPT ![Indexed] = streams]
    /\ canceled' = IF instances[Indexed] # NoGuard
                   THEN canceled \cup {instances[Indexed]} ELSE canceled
    /\ pc' = "read"
    /\ UNCHANGED <<subgraph_count, start_pc, stops, streams, stream_filters, first_run,
                   event, res>>
    /\ UNCHANGED <<ctxVars, blockVars, configVars, dispatchVars, poiVars, evictVars, registryVars, storeVars>>

ReadEvent(e) ==
    /\ pc = "read"
    /\ event' = e
    /\ pc' = "event"
    /\ UNCHANGED <<managerVars, canceled, streams, stream_filters, first_run, res>>
    /\ UNCHANGED <<ctxVars, blockVars, configVars, dispatchVars, poiVars, evictVars, registryVars, storeVars>>

\* block_stream.next() of a canceled stream: Some(Err(CancelableError::Cancel))
StreamCancel ==
    /\ IsCanceled(streams)
    /\ ReadEvent([type |-> "Cancel", ptr |-> 0, outcome |-> "none"])

\* block_stream.next(): the next block on top of the deployment pointer
StreamBlock ==
    /\ ~IsCanceled(streams)
    /\ store_ptr < MaxBlock
    /\ ReadEvent([type |-> "Block", ptr |-> store_ptr + 1, outcome |-> "none"])

\* block_stream.next(): the block at the deployment pointer left the chain
StreamRevert ==
    /\ ~IsCanceled(streams)
    /\ store_ptr >= 1
    /\ ReadEvent([type |-> "Revert", ptr |-> store_ptr, outcome |-> "none"])

\* block_stream.next(): Some(Err(CancelableError::Error(e)))
StreamError ==
    /\ ~IsCanceled(streams)
    /\ ReadEvent([type |-> "Error", ptr |-> 0, outcome |-> "none"])

\* HandleStreamError that leaves the loop with the error
HandleStreamError_Exits ==
    /\ pc = "event"
    /\ event.type \in {"Error", "Cancel"}
    /\ pc' = "done_err"
    /\ UNCHANGED <<managerVars, canceled, streams, stream_filters, first_run, event, res>>
    /\ UNCHANGED <<ctxVars, blockVars, configVars, dispatchVars, poiVars, evictVars, registryVars, storeVars>>

\* The Some(Err(e)) arm: log and continue.
HandleStreamError ==
    /\ pc = "event"
    /\ event.type \in {"Error", "Cancel"}
    /\ pc' = "read"
    /\ UNCHANGED <<managerVars, canceled, streams, stream_filters, first_run, event, res>>
    /\ UNCHANGED <<ctxVars, blockVars, configVars, dispatchVars, poiVars, evictVars, registryVars, storeVars>>

\* RevertFailed that propagates the error out of the loop instead of
\* continuing
RevertFailed_Exits(cause) ==
    /\ pc = "event"
    /\ event.type = "Revert"
    /\ event' = [event EXCEPT !.outcome = cause]
    /\ pc' = "done_err"
    /\ UNCHANGED <<managerVars, canceled, streams, stream_filters, first_run, res>>
    /\ UNCHANGED <<ctxVars, blockVars, configVars, dispatchVars, poiVars, evictVars, registryVars, storeVars>>

\* The Revert arm when load_blocks or revert_block_operations returns Err:
\* log and continue.
RevertFailed(cause) ==
    /\ pc = "event"
    /\ event.type = "Revert"
    /\ event' = [event EXCEPT !.outcome = cause]
    /\ pc' = "read"
    /\ UNCHANGED <<managerVars, canceled, streams, stream_filters, first_run, res>>
    /\ UNCHANGED <<ctxVars, blockVars, configVars, dispatchVars, poiVars, evictVars, registryVars, storeVars>>

\* RevertOk that keeps the EntityLfuCache across the revert
RevertOk_KeepsCache ==
    /\ pc = "event"
    /\ event.type = "Revert"
    /\ LET parent_ptr == ParentPtr(LoadedBlock(event.ptr))
       IN  /\ store_ptr' = parent_ptr
           /\ store_entities' = RevertedEntities(store_entities, parent_ptr)
    /\ reverted_blocks' = event.ptr
    /\ hosts' = RevertDataSources(hosts, event.ptr)
    /\ event' = [event EXCEPT !.outcome = "reverted"]
    /\ pc' = "read"
    /\ UNCHANGED <<managerVars, canceled, streams, stream_filters, first_run, res, filters,
                   entity_lfu_cache>>
    /\ UNCHANGED <<blockVars, configVars, dispatchVars, poiVars, evictVars, registryVars, transact_args, synced_reply,
                   unassign_calls, unfail_calls, fail_subgraph_calls,
                   last_commit_number>>

\* RevertOk that also narrows the filters to the remaining data sources
RevertOk_RevertsFilters ==
    /\ pc = "event"
    /\ event.type = "Revert"
    /\ LET parent_ptr == ParentPtr(LoadedBlock(event.ptr))
       IN  /\ store_ptr' = parent_ptr
           /\ store_entities' = RevertedEntities(store_entities, parent_ptr)
    /\ reverted_blocks' = event.ptr
    /\ hosts' = RevertDataSources(hosts, event.ptr)
    /\ entity_lfu_cache' = EmptyCache
    /\ event' = [event EXCEPT !.outcome = "reverted"]
    /\ pc' = "read"
    /\ filters' = HostNames(RevertDataSources(hosts, event.ptr))
    /\ UNCHANGED <<managerVars, canceled, streams, stream_filters, first_run, res>>
    /\ UNCHANGED <<blockVars, configVars, dispatchVars, poiVars, evictVars, registryVars, transact_args, synced_reply,
                   unassign_calls, unfail_calls, fail_subgraph_calls,
                   last_commit_number>>

\* The Revert arm when the block is loaded and the store reverts to its parent.
RevertOk ==
    /\ pc = "event"
    /\ event.type = "Revert"
    /\ LET parent_ptr == ParentPtr(LoadedBlock(event.ptr))
       IN  /\ store_ptr' = parent_ptr
           /\ store_entities' = RevertedEntities(store_entities, parent_ptr)
    /\ reverted_blocks' = event.ptr
    /\ hosts' = RevertDataSources(hosts, event.ptr)
    /\ entity_lfu_cache' = EmptyCache
    /\ event' = [event EXCEPT !.outcome = "reverted"]
    /\ pc' = "read"
    /\ UNCHANGED <<managerVars, canceled, streams, stream_filters, first_run, res, filters>>
    /\ UNCHANGED <<blockVars, configVars, dispatchVars, poiVars, evictVars, registryVars, transact_args, synced_reply,
                   unassign_calls, unfail_calls, fail_subgraph_calls,
                   last_commit_number>>

\* ------------------------------------------------------- process_block
\* process_block owns the context: returning Err drops it, together with the
\* block state.
ReturnErr(r) ==
    /\ res' = r
    /\ pc' = "match"
    /\ hosts' = <<>>
    /\ filters' = {}
    /\ entity_lfu_cache' = EmptyCache
    /\ block_state' = NewBlockState(EmptyCache)
    /\ needs_restart' = FALSE
    /\ proof_of_indexing' = FALSE

\* The Block arm and the head of process_block: the block pointers and
\* store.supports_proof_of_indexing (Err is returned as Unknown).
LoopBlock ==
    /\ pc = "event"
    /\ event.type = "Block"
    /\ block' = [number |-> event.ptr, parent |-> event.ptr - 1]
    /\ \E supports \in {"yes", "no", "error"} :
          IF supports = "error"
          THEN ReturnErr(Unknown)
          ELSE /\ proof_of_indexing' = (supports = "yes")
               /\ pc' = "pb_dispatch"
               /\ UNCHANGED <<res, hosts, filters, entity_lfu_cache,
                              block_state, needs_restart>>
    /\ UNCHANGED <<managerVars, canceled, loopVars,
                   reverted_blocks>>
    /\ UNCHANGED <<configVars, dispatchVars, poiVars, evictVars, registryVars, storeVars>>

\* Primary dispatch that clones the LFU cache instead of moving it out
PB_Primary_ClonesCache(triggers) ==
    /\ pc = "pb_dispatch"
    /\ LET r == ProcessTriggers(NewBlockState(entity_lfu_cache), triggers)
       IN  CASE r.status = "Ok" ->
                   /\ UNCHANGED entity_lfu_cache
                   /\ block_state' = r.state
                   /\ needs_restart' = (r.state.created # <<>>)
                   /\ pc' = IF r.state.created # <<>>
                            THEN "pb_expand" ELSE "pb_gate"
                   /\ UNCHANGED <<res, hosts, filters, proof_of_indexing>>
             [] r.status = "PossibleReorg" ->
                   /\ entity_lfu_cache' = EmptyCache
                   /\ res' = Ok(TRUE)
                   /\ pc' = "match"
                   /\ block_state' = NewBlockState(EmptyCache)
                   /\ proof_of_indexing' = FALSE
                   /\ UNCHANGED <<hosts, filters, needs_restart>>
             [] OTHER -> ReturnErr(Unknown)
    /\ UNCHANGED <<managerVars, canceled, loopVars,
                   reverted_blocks, block>>
    /\ UNCHANGED <<configVars, dispatchVars, poiVars, evictVars, registryVars, storeVars>>

\* Primary dispatch: the LFU cache is moved out of the context into a new
\* BlockState and the block's triggers are processed in order.  Unknown is
\* returned as Unknown; PossibleReorg returns Ok((ctx, true)).
PB_Primary(triggers) ==
    /\ pc = "pb_dispatch"
    /\ LET r == ProcessTriggers(NewBlockState(entity_lfu_cache), triggers)
       IN  CASE r.status = "Ok" ->
                   /\ entity_lfu_cache' = EmptyCache
                   /\ block_state' = r.state
                   /\ needs_restart' = (r.state.created # <<>>)
                   /\ pc' = IF r.state.created # <<>>
                            THEN "pb_expand" ELSE "pb_gate"
                   /\ UNCHANGED <<res, hosts, filters, proof_of_indexing>>
             [] r.status = "PossibleReorg" ->
                   /\ entity_lfu_cache' = EmptyCache
                   /\ res' = Ok(TRUE)
                   /\ pc' = "match"
                   /\ block_state' = NewBlockState(EmptyCache)
                   /\ proof_of_indexing' = FALSE
                   /\ UNCHANGED <<hosts, filters, needs_restart>>
             [] OTHER -> ReturnErr(Unknown)
    /\ UNCHANGED <<managerVars, canceled, loopVars,
                   reverted_blocks, block>>
    /\ UNCHANGED <<configVars, dispatchVars, poiVars, evictVars, registryVars, storeVars>>

\* PB_Expand that recovers from a PossibleReorg of the new data sources'
\* triggers the way the primary dispatch does
PB_Expand_Recovers(triggers) ==
    /\ pc = "pb_expand"
    /\ LET drained == [block_state EXCEPT !.created = <<>>]
           made == CreateDynamicDataSources(hosts, block_state.created,
                                            block.number, <<>>)
           persisted == [drained EXCEPT
                           !.data_sources = @ \o made.data_sources]
           r == ProcessTriggers(persisted, triggers)
       IN  /\ made.data_sources = <<>> => triggers = <<>>
           /\ CASE r.status = "PossibleReorg" ->
                      /\ res' = Ok(TRUE)
                      /\ pc' = "match"
                      /\ hosts' = made.hosts
                      /\ filters' = filters \cup SeqToSet(made.data_sources)
                      /\ block_state' = NewBlockState(EmptyCache)
                      /\ proof_of_indexing' = FALSE
                      /\ event' = [event EXCEPT !.outcome = r.status]
                      /\ UNCHANGED <<entity_lfu_cache, needs_restart>>
                [] r.status = "Unknown" ->
                      /\ ReturnErr(Unknown)
                      /\ event' = [event EXCEPT !.outcome = r.status]
                [] OTHER ->
                      /\ hosts' = made.hosts
                      /\ filters' = filters \cup SeqToSet(made.data_sources)
                      /\ block_state' = r.state
                      /\ pc' = IF r.state.created # <<>>
                               THEN "pb_expand" ELSE "pb_gate"
                      /\ UNCHANGED <<res, entity_lfu_cache, needs_restart,
                                     proof_of_indexing, event>>
    /\ UNCHANGED <<managerVars, canceled, streams, stream_filters, first_run,
                   reverted_blocks, block>>
    /\ UNCHANGED <<configVars, dispatchVars, poiVars, evictVars, registryVars, storeVars>>

\* One iteration of the expansion loop: create_dynamic_data_sources on the
\* drained created data sources, triggers_in_block for the new data sources,
\* persist_dynamic_data_sources, then the new triggers in the new hosts.
\* A MappingError of either kind becomes Unknown.
PB_Expand(triggers) ==
    /\ pc = "pb_expand"
    /\ LET drained == [block_state EXCEPT !.created = <<>>]
           made == CreateDynamicDataSources(hosts, block_state.created,
                                            block.number, <<>>)
           persisted == [drained EXCEPT
                           !.data_sources = @ \o made.data_sources]
           r == ProcessTriggers(persisted, triggers)
       IN  /\ made.data_sources = <<>> => triggers = <<>>
           /\ IF r.status # "Ok"
              THEN /\ ReturnErr(Unknown)
                   /\ event' = [event EXCEPT !.outcome = r.status]
              ELSE /\ hosts' = made.hosts
                   /\ filters' = filters \cup SeqToSet(made.data_sources)
                   /\ block_state' = r.state
                   /\ pc' = IF r.state.created # <<>>
                            THEN "pb_expand" ELSE "pb_gate"
                   /\ UNCHANGED <<res, entity_lfu_cache, needs_restart,
                                  proof_of_indexing, event>>
    /\ UNCHANGED <<managerVars, canceled, streams, stream_filters, first_run,
                   reverted_blocks, block>>
    /\ UNCHANGED <<configVars, dispatchVars, poiVars, evictVars, registryVars, storeVars>>

\* An iteration of the expansion loop in which create_dynamic_data_sources
\* or triggers_in_block returns Err: Unknown.
PB_ExpandFailed ==
    /\ pc = "pb_expand"
    /\ ReturnErr(Unknown)
    /\ UNCHANGED <<managerVars, canceled, loopVars,
                   reverted_blocks, block>>
    /\ UNCHANGED <<configVars, dispatchVars, poiVars, evictVars, registryVars, storeVars>>

\* has_errors without the nonFatalErrors feature: Deterministic(first error)
PB_ErrorGate ==
    /\ pc = "pb_gate"
    /\ IF block_state.errors # <<>> /\ ~nonFatalErrors
       THEN ReturnErr(Deterministic(FirstError(block_state.errors)))
       ELSE /\ pc' = "pb_cancel"
            /\ UNCHANGED <<res, hosts, filters, entity_lfu_cache, block_state,
                           needs_restart, proof_of_indexing>>
    /\ UNCHANGED <<managerVars, canceled, loopVars,
                   reverted_blocks, block>>
    /\ UNCHANGED <<configVars, dispatchVars, poiVars, evictVars, registryVars, storeVars>>

\* TransactCall that leaves the deterministic errors out of the transaction
TransactCall_NoErrors ==
    LET m == AsModifications(block_state)
    IN  [called |-> TRUE, ptr |-> BlockPtrAfter(block), mods |-> m.mods,
         data_sources |-> m.data_sources, errors |-> <<>>]

\* The arguments of store.transact_block_operations
TransactCall ==
    LET m == AsModifications(block_state)
    IN  [called |-> TRUE, ptr |-> BlockPtrAfter(block), mods |-> m.mods,
         data_sources |-> m.data_sources, errors |-> block_state.errors]

\* PB_CancelCheck that looks at the cancel handle only after the call of
\* transact_block_operations
PB_CancelCheck_AfterTransact ==
    /\ pc = "pb_cancel"
    /\ IF IsCanceled(streams)
       THEN /\ ReturnErr(Canceled)
            /\ transact_args' = TransactCall
       ELSE /\ pc' = "pb_commit"
            /\ UNCHANGED <<res, hosts, filters, entity_lfu_cache, block_state,
                           needs_restart, proof_of_indexing, transact_args>>
    /\ UNCHANGED <<managerVars, canceled, loopVars,
                   reverted_blocks, block>>
    /\ UNCHANGED <<configVars, dispatchVars, poiVars, evictVars, registryVars, store_ptr,
                   store_entities, synced_reply, unassign_calls, unfail_calls,
                   fail_subgraph_calls, last_commit_number>>

\* block_stream_cancel_handle.is_canceled() before writing to the store
PB_CancelCheck ==
    /\ pc = "pb_cancel"
    /\ IF IsCanceled(streams)
       THEN ReturnErr(Canceled)
       ELSE /\ pc' = "pb_commit"
            /\ UNCHANGED <<res, hosts, filters, entity_lfu_cache, block_state,
                           needs_restart, proof_of_indexing>>
    /\ UNCHANGED <<managerVars, canceled, loopVars,
                   reverted_blocks, block>>
    /\ UNCHANGED <<configVars, dispatchVars, poiVars, evictVars, registryVars, storeVars>>

\* PB_Commit that goes on with the reinstated cache although
\* transact_block_operations failed
PB_Commit_IgnoresTransactError(outcome) ==
    /\ pc = "pb_commit"
    /\ outcome = "update_proof_of_indexing" => proof_of_indexing
    /\ CASE outcome \in {"update_proof_of_indexing", "as_modifications"} ->
               /\ ReturnErr(Unknown)
               /\ UNCHANGED <<transact_args, store_ptr, store_entities,
                              last_commit_number>>
         [] entity_lfu_cache # EmptyCache ->
               /\ pc' = "panicked"
               /\ UNCHANGED <<res, hosts, filters, entity_lfu_cache,
                              block_state, needs_restart, proof_of_indexing,
                              transact_args, store_ptr, store_entities,
                              last_commit_number>>
         [] outcome = "transact_error" ->
               /\ entity_lfu_cache' =
                      Evict(AsModifications(block_state).entity_lfu_cache,
                            ENTITY_CACHE_SIZE)
               /\ transact_args' = TransactCall
               /\ pc' = "pb_failfast"
               /\ UNCHANGED <<res, hosts, filters, block_state, needs_restart,
                              proof_of_indexing, store_ptr, store_entities,
                              last_commit_number>>
         [] OTHER ->
               /\ entity_lfu_cache' =
                      Evict(AsModifications(block_state).entity_lfu_cache,
                            ENTITY_CACHE_SIZE)
               /\ transact_args' = TransactCall
               /\ store_ptr' = TransactCall.ptr
               /\ store_entities' =
                      TransactedEntities(store_entities, TransactCall.ptr,
                                         TransactCall.mods)
               /\ last_commit_number' = TransactCall.ptr
               /\ pc' = "pb_failfast"
               /\ UNCHANGED <<res, hosts, filters, block_state, needs_restart,
                              proof_of_indexing>>
    /\ UNCHANGED <<managerVars, canceled, loopVars,
                   reverted_blocks, block, synced_reply, unassign_calls,
                   unfail_calls, fail_subgraph_calls>>
    /\ UNCHANGED <<configVars, dispatchVars, poiVars, evictVars, registryVars>>

\* update_proof_of_indexing, as_modifications, evict, the reinstatement of
\* the cache (the assertion panics when the placeholder is not empty) and
\* store.transact_block_operations.  A failure of any store call is returned
\* as Unknown.
PB_Commit(outcome) ==
    /\ pc = "pb_commit"
    /\ outcome = "update_proof_of_indexing" => proof_of_indexing
    /\ CASE outcome \in {"update_proof_of_indexing", "as_modifications"} ->
               /\ ReturnErr(Unknown)
               /\ UNCHANGED <<transact_args, store_ptr, store_entities,
                              last_commit_number>>
         [] entity_lfu_cache # EmptyCache ->
               /\ pc' = "panicked"
               /\ UNCHANGED <<res, hosts, filters, entity_lfu_cache,
                              block_state, needs_restart, proof_of_indexing,
                              transact_args, store_ptr, store_entities,
                              last_commit_number>>
         [] outcome = "transact_error" ->
               /\ ReturnErr(Unknown)
               /\ transact_args' = TransactCall
               /\ UNCHANGED <<store_ptr, store_entities, last_commit_number>>
         [] OTHER ->
               /\ entity_lfu_cache' =
                      Evict(AsModifications(block_state).entity_lfu_cache,
                            ENTITY_CACHE_SIZE)
               /\ transact_args' = TransactCall
               /\ store_ptr' = TransactCall.ptr
               /\ store_entities' =
                      TransactedEntities(store_entities, TransactCall.ptr,
                                         TransactCall.mods)
               /\ last_commit_number' = TransactCall.ptr
               /\ pc' = "pb_failfast"
               /\ UNCHANGED <<res, hosts, filters, block_state, needs_restart,
                              proof_of_indexing>>
    /\ UNCHANGED <<managerVars, canceled, loopVars,
                   reverted_blocks, block, synced_reply, unassign_calls,
                   unfail_calls, fail_subgraph_calls>>
    /\ UNCHANGED <<configVars, dispatchVars, poiVars, evictVars, registryVars>>

\* has_errors && fail_fast()?  (is_deployment_synced is asked only when
\* there are errors and fail-fast is not disabled)
PB_FailFast ==
    /\ pc = "pb_failfast"
    /\ IF block_state.errors # <<>> /\ ~DISABLE_FAIL_FAST
       THEN \E reply \in {"synced", "not_synced", "error"} :
               /\ synced_reply' = reply
               /\ CASE reply = "error" -> ReturnErr(Unknown)
                    [] reply = "synced" ->
                          /\ res' = Ok(needs_restart)
                          /\ pc' = "match"
                          /\ block_state' = NewBlockState(EmptyCache)
                          /\ proof_of_indexing' = FALSE
                          /\ UNCHANGED <<hosts, filters, entity_lfu_cache,
                                         needs_restart>>
                    [] OTHER ->
                          /\ pc' = "pb_unassign"
                          /\ UNCHANGED <<res, hosts, filters, entity_lfu_cache,
                                         block_state, needs_restart,
                                         proof_of_indexing>>
       ELSE /\ res' = Ok(needs_restart)
            /\ pc' = "match"
            /\ block_state' = NewBlockState(EmptyCache)
            /\ proof_of_indexing' = FALSE
            /\ UNCHANGED <<synced_reply, hosts, filters, entity_lfu_cache,
                           needs_restart>>
    /\ UNCHANGED <<managerVars, canceled, loopVars,
                   reverted_blocks, block, store_ptr, store_entities,
                   transact_args, unassign_calls, unfail_calls,
                   fail_subgraph_calls, last_commit_number>>
    /\ UNCHANGED <<configVars, dispatchVars, poiVars, evictVars, registryVars>>

\* PB_Unassign that reports Unknown also when unassign_subgraph succeeds
PB_Unassign_Unknown(ok) ==
    /\ pc = "pb_unassign"
    /\ unassign_calls' = Append(unassign_calls, ok)
    /\ ReturnErr(Unknown)
    /\ UNCHANGED <<managerVars, canceled, loopVars,
                   reverted_blocks, block, store_ptr, store_entities,
                   transact_args, synced_reply, unfail_calls,
                   fail_subgraph_calls, last_commit_number>>
    /\ UNCHANGED <<configVars, dispatchVars, poiVars, evictVars, registryVars>>

\* store.unassign_subgraph: Ok gives Canceled, Err gives Unknown
PB_Unassign(ok) ==
    /\ pc = "pb_unassign"
    /\ unassign_calls' = Append(unassign_calls, ok)
    /\ ReturnErr(IF ok THEN Canceled ELSE Unknown)
    /\ UNCHANGED <<managerVars, canceled, loopVars,
                   reverted_blocks, block, store_ptr, store_entities,
                   transact_args, synced_reply, unfail_calls,
                   fail_subgraph_calls, last_commit_number>>
    /\ UNCHANGED <<configVars, dispatchVars, poiVars, evictVars, registryVars>>

\* The Ok arm without the restart: it goes on reading the old stream
LoopOk_KeepsStream(unfail_ok) ==
    /\ pc = "match"
    /\ res.type = "Ok"
    /\ first_run' = FALSE
    /\ unfail_calls' = IF first_run THEN unfail_calls + 1 ELSE unfail_calls
    /\ ~first_run => unfail_ok
    /\ block' = NoBlock
    /\ needs_restart' = FALSE
    /\ transact_args' = NoCall
    /\ synced_reply' = "none"
    /\ IF ~unfail_ok
       THEN /\ pc' = "done_err"
            /\ hosts' = <<>>
            /\ filters' = {}
            /\ entity_lfu_cache' = EmptyCache
            /\ UNCHANGED <<instances, canceled, res>>
       ELSE /\ res' = NoResult
            /\ UNCHANGED <<hosts, filters, entity_lfu_cache>>
            /\ IF res.restart
               THEN /\ pc' = "read"
                    /\ UNCHANGED <<instances, canceled>>
               ELSE /\ pc' = "read"
                    /\ UNCHANGED <<instances, canceled>>
    /\ UNCHANGED <<subgraph_count, start_pc, stops, streams, stream_filters, event, reverted_blocks, block_state,
                   proof_of_indexing, store_ptr, store_entities,
                   unassign_calls, fail_subgraph_calls, last_commit_number>>
    /\ UNCHANGED <<configVars, dispatchVars, poiVars, evictVars, registryVars>>

\* ------------------------------------------- run_subgraph: match res
\* Ok((c, needs_restart)): unfail on the first run (its Err ends run_subgraph),
\* then either remove the guard from the registry and restart, or read the
\* next event.
LoopOk(unfail_ok) ==
    /\ pc = "match"
    /\ res.type = "Ok"
    /\ first_run' = FALSE
    /\ unfail_calls' = IF first_run THEN unfail_calls + 1 ELSE unfail_calls
    /\ ~first_run => unfail_ok
    /\ block' = NoBlock
    /\ needs_restart' = FALSE
    /\ transact_args' = NoCall
    /\ synced_reply' = "none"
    /\ IF ~unfail_ok
       THEN /\ pc' = "done_err"
            /\ hosts' = <<>>
            /\ filters' = {}
            /\ entity_lfu_cache' = EmptyCache
            /\ UNCHANGED <<instances, canceled, res>>
       ELSE /\ res' = NoResult
            /\ UNCHANGED <<hosts, filters, entity_lfu_cache>>
            /\ IF res.restart
               THEN /\ instances' = [instances EXCEPT ![Indexed] = NoGuard]
                    /\ canceled' = IF instances[Indexed] # NoGuard
                                   THEN canceled \cup {instances[Indexed]}
                                   ELSE canceled
                    /\ pc' = "build"
               ELSE /\ pc' = "read"
                    /\ UNCHANGED <<instances, canceled>>
    /\ UNCHANGED <<subgraph_count, start_pc, stops, streams, stream_filters, event, reverted_blocks, block_state,
                   proof_of_indexing, store_ptr, store_entities,
                   unassign_calls, fail_subgraph_calls, last_commit_number>>
    /\ UNCHANGED <<configVars, dispatchVars, poiVars, evictVars, registryVars>>

\* Err(BlockProcessingError::Canceled): return Ok(())
LoopCanceled ==
    /\ pc = "match"
    /\ res.type = "Canceled"
    /\ pc' = "done_ok"
    /\ UNCHANGED <<managerVars, canceled, loopVars, res, block, transact_args,
                   block_state, needs_restart, proof_of_indexing, store_ptr,
                   store_entities, synced_reply, unassign_calls, unfail_calls,
                   fail_subgraph_calls, last_commit_number>>
    /\ UNCHANGED <<ctxVars, configVars, dispatchVars, poiVars, evictVars, registryVars>>

\* Err(e): fail_subgraph with deterministic = e.is_deterministic(), return Err
LoopFailed ==
    /\ pc = "match"
    /\ res.type \in {"Deterministic", "Unknown"}
    /\ fail_subgraph_calls' = Append(fail_subgraph_calls, IsDeterministic(res))
    /\ pc' = "done_err"
    /\ UNCHANGED <<managerVars, canceled, loopVars, res, block, transact_args,
                   block_state, needs_restart, proof_of_indexing, store_ptr,
                   store_entities, synced_reply, unassign_calls, unfail_calls,
                   last_commit_number>>
    /\ UNCHANGED <<ctxVars, configVars, dispatchVars, poiVars, evictVars, registryVars>>

\* ------------------------------------------------------------------ Next
Next ==
    \/ StartSubgraph
    \/ StartSubgraphFailed
    \/ \E id \in DeploymentIds : StopSubgraph(id)
    \/ BuildStream
    \/ InsertGuard
    \/ StreamCancel
    \/ StreamBlock
    \/ StreamRevert
    \/ StreamError
    \/ HandleStreamError
    \/ \E cause \in {"load_blocks", "revert_block_operations"} : RevertFailed(cause)
    \/ RevertOk
    \/ LoopBlock
    \/ \E triggers \in BlockTriggers : PB_Primary(triggers)
    \/ \E triggers \in NewTriggers : PB_Expand(triggers)
    \/ PB_ExpandFailed
    \/ PB_ErrorGate
    \/ PB_CancelCheck
    \/ \E outcome \in {"ok", "update_proof_of_indexing", "as_modifications",
                       "transact_error"} : PB_Commit(outcome)
    \/ PB_FailFast
    \/ \E ok \in BOOLEAN : PB_Unassign(ok)
    \/ \E unfail_ok \in BOOLEAN : LoopOk(unfail_ok)
    \/ LoopCanceled
    \/ LoopFailed

Spec == Init /\ [][Next]_vars

\* ------------------------------------------------- stop of a running loop
\* The loop of a started deployment from the point where it has inserted its
\* first cancel guard, with stop_subgraph called at any moment from then on.
RunningInit ==
    /\ instances = [d \in DeploymentIds |-> 1]
    /\ subgraph_count = 1
    /\ start_pc = "started"
    /\ stops = 0
    /\ canceled = {}
    /\ streams = 1
    /\ stream_filters = {"S"}
    /\ pc = "read"
    /\ first_run = TRUE
    /\ event = NoEvent
    /\ res = NoResult
    /\ hosts = <<[name |-> "S", created_at |-> -1]>>
    /\ filters = {"S"}
    /\ entity_lfu_cache = EmptyCache
    /\ reverted_blocks = 0
    /\ block = NoBlock
    /\ block_state = NewBlockState(EmptyCache)
    /\ needs_restart = FALSE
    /\ proof_of_indexing = FALSE
    /\ nonFatalErrors \in BOOLEAN
    /\ DISABLE_FAIL_FAST \in BOOLEAN
    /\ store_ptr = 0
    /\ store_entities = <<EmptyEntities>>
    /\ transact_args = NoCall
    /\ synced_reply = "none"
    /\ unassign_calls = <<>>
    /\ unfail_calls = 0
    /\ fail_subgraph_calls = <<>>
    /\ last_commit_number = 0
    /\ trigger_iter = <<>>
    /\ runtime_hosts = <<>>
    /\ iteration = 0
    /\ dispatched = <<>>
    /\ poi_supported = FALSE
    /\ poi_streams = NoProofOfIndexing
    /\ poi_cache = NoPoiEntities
    /\ poi_store = NoPoiEntities
    /\ cache_size_env = GRAPH_ENTITY_CACHE_SIZE
    /\ modified_cache = NoWeightedCache
    /\ state_lfu_cache = NoWeightedCache
    /\ loop_pc = [t \in Threads |-> "idle"]
    /\ loop_guard = [t \in Threads |-> NoGuard]

RunningNext ==
    \/ \E id \in DeploymentIds : StopSubgraph(id)
    \/ BuildStream
    \/ InsertGuard
    \/ StreamCancel
    \/ StreamBlock
    \/ StreamRevert
    \/ StreamError
    \/ HandleStreamError
    \/ \E cause \in {"load_blocks", "revert_block_operations"} : RevertFailed(cause)
    \/ RevertOk
    \/ LoopBlock
    \/ \E triggers \in BlockTriggers : PB_Primary(triggers)
    \/ \E triggers \in NewTriggers : PB_Expand(triggers)
    \/ PB_ExpandFailed
    \/ PB_ErrorGate
    \/ PB_CancelCheck
    \/ \E outcome \in {"ok", "update_proof_of_indexing", "as_modifications",
                       "transact_error"} : PB_Commit(outcome)
    \/ PB_FailFast
    \/ \E ok \in BOOLEAN : PB_Unassign(ok)
    \/ \E unfail_ok \in BOOLEAN : LoopOk(unfail_ok)
    \/ LoopCanceled
    \/ LoopFailed

RunningSpec == RunningInit /\ [][RunningNext]_vars

\* ------------------------------------------- one block, trigger by trigger
\* process_triggers and the expansion loop of process_block for the first
\* block of a deployment, with every process_trigger call as a step of its
\* own.  The chain block holds triggers of the static data source "S" and of
\* the data sources "A" and "B" that handlers can create from templates; the
\* block stream supplies the ones matching the stream's filters.

\* The triggers a chain block can hold: the data source whose filter they
\* match and what its handler does.
ChainTriggerKinds ==
    {[source |-> "S", handler |-> h] :
        h \in {"Set", "Remove", "Fail", "Reorg", "Unknown", "Create", "CreateB"}}
    \cup {[source |-> "A", handler |-> h] :
        h \in {"Set", "Remove", "Reorg", "Create", "CreateB"}}
    \cup {[source |-> "B", handler |-> h] : h \in {"Set", "Remove"}}

ChainBlocks == SeqsUpTo(ChainTriggerKinds, MaxChainTriggers)

\* The triggers of block b matching the filters of the given data sources, in
\* chain order: what the block stream puts into EthereumBlockWithTriggers
\* and what triggers_in_block returns.
TriggersInBlock(b, sources) ==
    SelectSeq(b.triggers, LAMBDA t : t.source \in sources)

\* process_block has moved the cache into the block state and is about to
\* call process_triggers with the triggers the stream supplied.
DispatchInit ==
    /\ instances = [d \in DeploymentIds |-> 1]
    /\ subgraph_count = 1
    /\ start_pc = "started"
    /\ stops = 0
    /\ canceled = {}
    /\ streams = 1
    /\ stream_filters = {"S"}
    /\ pc = "process_triggers"
    /\ first_run = TRUE
    /\ event = [type |-> "Block", ptr |-> 1, outcome |-> "none"]
    /\ res = NoResult
    /\ hosts = <<[name |-> "S", created_at |-> -1]>>
    /\ filters = {"S"}
    /\ entity_lfu_cache = EmptyCache
    /\ reverted_blocks = 0
    /\ \E ts \in ChainBlocks :
          /\ block = [number |-> 1, parent |-> 0, triggers |-> ts]
          /\ trigger_iter = SelectSeq(ts, LAMBDA t : t.source \in {"S"})
    /\ block_state = NewBlockState(EmptyCache)
    /\ needs_restart = FALSE
    /\ proof_of_indexing = FALSE
    /\ nonFatalErrors = FALSE
    /\ DISABLE_FAIL_FAST = FALSE
    /\ store_ptr = 0
    /\ store_entities = <<EmptyEntities>>
    /\ transact_args = NoCall
    /\ synced_reply = "none"
    /\ unassign_calls = <<>>
    /\ unfail_calls = 0
    /\ fail_subgraph_calls = <<>>
    /\ last_commit_number = 0
    /\ runtime_hosts = <<>>
    /\ iteration = 0
    /\ dispatched = <<>>
    /\ poi_supported = FALSE
    /\ poi_streams = NoProofOfIndexing
    /\ poi_cache = NoPoiEntities
    /\ poi_store = NoPoiEntities
    /\ cache_size_env = GRAPH_ENTITY_CACHE_SIZE
    /\ modified_cache = NoWeightedCache
    /\ state_lfu_cache = NoWeightedCache
    /\ loop_pc = [t \in Threads |-> "idle"]
    /\ loop_guard = [t \in Threads |-> NoGuard]

\* The call made on the last trigger of the iterator instead of the next
ProcessTriggerCall_Last ==
    LET t == trigger_iter[Len(trigger_iter)]
        r == ProcessTrigger(t.handler, block_state)
    IN  [trigger |-> t, iteration |-> iteration,
         input |-> block_state, status |-> r.status, output |-> r.state]

\* The process_trigger call on the next trigger of the iterator, with the
\* block state it is given and what it returns
ProcessTriggerCall ==
    LET r == ProcessTrigger(Head(trigger_iter).handler, block_state)
    IN  [trigger |-> Head(trigger_iter), iteration |-> iteration,
         input |-> block_state, status |-> r.status, output |-> r.state]

\* process_triggers, the body of `for trigger in triggers.into_iter()`: the
\* state returned replaces block_state; a MappingError ends the loop with ?
\* and process_block maps it (Unknown: Err, PossibleReorg: Ok((ctx, true))).
ProcessTriggers_Next ==
    /\ pc = "process_triggers"
    /\ trigger_iter # <<>>
    /\ dispatched' = Append(dispatched, ProcessTriggerCall)
    /\ CASE ProcessTriggerCall.status = "Ok" ->
               /\ block_state' = ProcessTriggerCall.output
               /\ trigger_iter' = Tail(trigger_iter)
               /\ UNCHANGED <<pc, res, hosts, filters, entity_lfu_cache,
                              needs_restart, proof_of_indexing>>
         [] ProcessTriggerCall.status = "PossibleReorg" ->
               /\ res' = Ok(TRUE)
               /\ pc' = "match"
               /\ block_state' = NewBlockState(EmptyCache)
               /\ trigger_iter' = <<>>
               /\ UNCHANGED <<hosts, filters, entity_lfu_cache,
                              needs_restart, proof_of_indexing>>
         [] OTHER ->
               /\ ReturnErr(Unknown)
               /\ trigger_iter' = <<>>
    /\ UNCHANGED <<managerVars, canceled, loopVars, reverted_blocks, block,
                   configVars, poiVars, evictVars, registryVars, storeVars, runtime_hosts, iteration>>

\* process_triggers returns Ok(block_state); needs_restart is taken from
\* has_created_data_sources and the expansion loop is entered or skipped.
ProcessTriggers_Done ==
    /\ pc = "process_triggers"
    /\ trigger_iter = <<>>
    /\ needs_restart' = (block_state.created # <<>>)
    /\ pc' = IF block_state.created # <<>> THEN "pb_expand" ELSE "pb_gate"
    /\ UNCHANGED <<managerVars, canceled, loopVars, res, ctxVars, block,
                   block_state, proof_of_indexing, configVars, poiVars, evictVars, registryVars, storeVars,
                   dispatchVars>>

\* Expand_Create without persist_dynamic_data_sources
Expand_Create_NotPersisted ==
    /\ pc = "pb_expand"
    /\ LET made == CreateDynamicDataSources(hosts, block_state.created,
                                            block.number, <<>>)
       IN  /\ hosts' = made.hosts
           /\ filters' = filters \cup SeqToSet(made.data_sources)
           /\ block_state' = [block_state EXCEPT
                                !.created = <<>>]
           /\ runtime_hosts' = Append(runtime_hosts, made.data_sources)
           /\ trigger_iter' =
                  TriggersInBlock(block, SeqToSet(made.data_sources))
    /\ iteration' = iteration + 1
    /\ pc' = "expand_triggers"
    /\ UNCHANGED <<managerVars, canceled, loopVars, res, entity_lfu_cache,
                   reverted_blocks, block, needs_restart, proof_of_indexing,
                   configVars, poiVars, evictVars, registryVars, storeVars, dispatched>>

\* The head of one expansion iteration: drain_created_data_sources,
\* create_dynamic_data_sources, triggers_in_block for the new data sources
\* and persist_dynamic_data_sources.
Expand_Create ==
    /\ pc = "pb_expand"
    /\ LET made == CreateDynamicDataSources(hosts, block_state.created,
                                            block.number, <<>>)
       IN  /\ hosts' = made.hosts
           /\ filters' = filters \cup SeqToSet(made.data_sources)
           /\ block_state' = [block_state EXCEPT
                                !.created = <<>>,
                                !.data_sources = @ \o made.data_sources]
           /\ runtime_hosts' = Append(runtime_hosts, made.data_sources)
           /\ trigger_iter' =
                  TriggersInBlock(block, SeqToSet(made.data_sources))
    /\ iteration' = iteration + 1
    /\ pc' = "expand_triggers"
    /\ UNCHANGED <<managerVars, canceled, loopVars, res, entity_lfu_cache,
                   reverted_blocks, block, needs_restart, proof_of_indexing,
                   configVars, poiVars, evictVars, registryVars, storeVars, dispatched>>

\* create_dynamic_data_sources or triggers_in_block returns Err
Expand_Failed ==
    /\ pc = "pb_expand"
    /\ ReturnErr(Unknown)
    /\ UNCHANGED <<managerVars, canceled, loopVars, reverted_blocks, block,
                   configVars, poiVars, evictVars, registryVars, storeVars, dispatchVars>>

\* Expand_Next that turns to a data source as soon as a trigger created it
Expand_Next_DepthFirst ==
    /\ pc = "expand_triggers"
    /\ trigger_iter # <<>>
    /\ dispatched' = Append(dispatched, ProcessTriggerCall)
    /\ IF ProcessTriggerCall.status = "Ok"
       THEN /\ block_state' = ProcessTriggerCall.output
            /\ trigger_iter' = Tail(trigger_iter)
            /\ pc' = IF ProcessTriggerCall.output.created # <<>>
                     THEN "pb_expand" ELSE pc
            /\ UNCHANGED <<res, hosts, filters, entity_lfu_cache,
                           needs_restart, proof_of_indexing, event>>
       ELSE /\ ReturnErr(Unknown)
            /\ event' = [event EXCEPT !.outcome = ProcessTriggerCall.status]
            /\ trigger_iter' = <<>>
    /\ UNCHANGED <<managerVars, canceled, streams, stream_filters, first_run,
                   reverted_blocks, block, configVars, poiVars, evictVars, registryVars, storeVars,
                   runtime_hosts, iteration>>

\* The expansion's `for trigger in triggers.into_iter()`: the trigger is
\* processed in the new runtime hosts; any MappingError is returned as Unknown.
Expand_Next ==
    /\ pc = "expand_triggers"
    /\ trigger_iter # <<>>
    /\ dispatched' = Append(dispatched, ProcessTriggerCall)
    /\ IF ProcessTriggerCall.status = "Ok"
       THEN /\ block_state' = ProcessTriggerCall.output
            /\ trigger_iter' = Tail(trigger_iter)
            /\ UNCHANGED <<pc, res, hosts, filters, entity_lfu_cache,
                           needs_restart, proof_of_indexing, event>>
       ELSE /\ ReturnErr(Unknown)
            /\ event' = [event EXCEPT !.outcome = ProcessTriggerCall.status]
            /\ trigger_iter' = <<>>
    /\ UNCHANGED <<managerVars, canceled, streams, stream_filters, first_run,
                   reverted_blocks, block, configVars, poiVars, evictVars, registryVars, storeVars,
                   runtime_hosts, iteration>>

\* The end of one expansion iteration: `while has_created_data_sources()`
Expand_Done ==
    /\ pc = "expand_triggers"
    /\ trigger_iter = <<>>
    /\ pc' = IF block_state.created # <<>> THEN "pb_expand" ELSE "pb_gate"
    /\ UNCHANGED <<managerVars, canceled, loopVars, res, ctxVars, blockVars,
                   configVars, poiVars, evictVars, registryVars, storeVars, dispatchVars>>

\* The process_trigger calls of process_triggers (the primary dispatch)
PrimaryCalls == SelectSeq(dispatched, LAMBDA c : c.iteration = 0)

\* The process_trigger calls of expansion iteration n
IterationCalls(n) == SelectSeq(dispatched, LAMBDA c : c.iteration = n)

\* The triggers of a sequence of process_trigger calls
RECURSIVE CallTriggers(_)
CallTriggers(calls) ==
    IF calls = <<>> THEN <<>>
    ELSE <<Head(calls).trigger>> \o CallTriggers(Tail(calls))

DispatchNext ==
    \/ ProcessTriggers_Next
    \/ ProcessTriggers_Done
    \/ Expand_Create
    \/ Expand_Failed
    \/ Expand_Next
    \/ Expand_Done
    \/ PB_ErrorGate
    \/ PB_CancelCheck
    \/ \E outcome \in {"ok", "as_modifications", "transact_error"} :
          PB_Commit(outcome)
    \/ PB_FailFast

DispatchSpec == DispatchInit /\ [][DispatchNext]_vars

\* ------------------------------------------------------ proof of indexing
\* The proof-of-indexing work of process_block over consecutive blocks: the
\* handle made from store.supports_proof_of_indexing, the runtime's writes
\* to it while the triggers are processed, update_proof_of_indexing, and the
\* commit of the POI entities.

\* What a trigger's handler reports to the proof of indexing: the causality
\* region of its data source and the event
PoiTriggerKinds ==
    {[region |-> "r1", event |-> "a"], [region |-> "r1", event |-> "b"],
     [region |-> "r2", event |-> "a"]}

PoiBlocks == SeqsUpTo(PoiTriggerKinds, MaxTriggers)

\* ProofOfIndexing::new(block_ptr.number)
ProofOfIndexingNew(number) ==
    [block_number |-> number, streams |-> [r \in Regions |-> <<>>]]

\* The mapping runtime writing a trigger's event to the stream of its region
PoiWrite(poi, t) == [poi EXCEPT !.streams[t.region] = Append(@, t.event)]

\* proof_of_indexing.drain(): the regions that have a stream
Touched(poi) == {r \in Regions : poi.streams[r] # <<>>}

\* stream.pause(prev_poi): the digest of a region after the block
Pause(stream, prev_poi) == [prev |-> prev_poi, events |-> stream]

\* entity_cache.get(&entity_key): the block's own writes, then the store
EntityCacheGet(cache, store, r) == IF cache[r] # <<>> THEN cache[r] ELSE store[r]

\* update_proof_of_indexing that sets a POI entity for every region
UpdateProofOfIndexing_AllRegions(poi, cache, store) ==
    [r \in Regions |->
        LET entity == EntityCacheGet(cache, store, r)
            prev_poi == IF entity = <<>> THEN <<>> ELSE <<entity[1].digest>>
        IN  <<[entity_type |-> POI_OBJECT, id |-> r,
               digest |-> Pause(poi.streams[r], prev_poi)]>>]

\* update_proof_of_indexing: the entity cache after the loop over drain()
UpdateProofOfIndexing(poi, cache, store) ==
    [r \in Regions |->
        IF r \in Touched(poi)
        THEN LET entity == EntityCacheGet(cache, store, r)
                 prev_poi == IF entity = <<>> THEN <<>>
                             ELSE <<entity[1].digest>>
             IN  <<[entity_type |-> POI_OBJECT, id |-> r,
                    digest |-> Pause(poi.streams[r], prev_poi)]>>
        ELSE cache[r]]

\* The loop is about to process block 1 of a deployment with or without a
\* POI table.
PoiInit ==
    /\ instances = [d \in DeploymentIds |-> 1]
    /\ subgraph_count = 1
    /\ start_pc = "started"
    /\ stops = 0
    /\ canceled = {}
    /\ streams = 1
    /\ stream_filters = {"S"}
    /\ pc = "poi_new"
    /\ first_run = TRUE
    /\ event = [type |-> "Block", ptr |-> 1, outcome |-> "none"]
    /\ res = NoResult
    /\ hosts = <<[name |-> "S", created_at |-> -1]>>
    /\ filters = {"S"}
    /\ entity_lfu_cache = EmptyCache
    /\ reverted_blocks = 0
    /\ block = [number |-> 1, parent |-> 0, triggers |-> <<>>]
    /\ block_state = NewBlockState(EmptyCache)
    /\ needs_restart = FALSE
    /\ proof_of_indexing = FALSE
    /\ nonFatalErrors = FALSE
    /\ DISABLE_FAIL_FAST = FALSE
    /\ store_ptr = 0
    /\ store_entities = <<EmptyEntities>>
    /\ transact_args = NoCall
    /\ synced_reply = "none"
    /\ unassign_calls = <<>>
    /\ unfail_calls = 0
    /\ fail_subgraph_calls = <<>>
    /\ last_commit_number = 0
    /\ trigger_iter = <<>>
    /\ runtime_hosts = <<>>
    /\ iteration = 0
    /\ dispatched = <<>>
    /\ poi_supported \in BOOLEAN
    /\ poi_streams = NoProofOfIndexing
    /\ poi_cache = NoPoiEntities
    /\ poi_store = NoPoiEntities
    /\ cache_size_env = GRAPH_ENTITY_CACHE_SIZE
    /\ modified_cache = NoWeightedCache
    /\ state_lfu_cache = NoWeightedCache
    /\ loop_pc = [t \in Threads |-> "idle"]
    /\ loop_guard = [t \in Threads |-> NoGuard]

\* Poi_New that makes a handle whatever the store answers
Poi_New_AlwaysSome(reply) ==
    /\ pc = "poi_new"
    /\ \E ts \in PoiBlocks :
          /\ block' = [block EXCEPT !.triggers = ts]
          /\ trigger_iter' = ts
    /\ IF reply = "error"
       THEN /\ ReturnErr(Unknown)
            /\ UNCHANGED poi_streams
       ELSE /\ proof_of_indexing' = TRUE
            /\ poi_streams' = ProofOfIndexingNew(BlockPtrAfter(block))
            /\ pc' = "poi_dispatch"
            /\ UNCHANGED <<res, hosts, filters, entity_lfu_cache, block_state,
                           needs_restart>>
    /\ UNCHANGED <<managerVars, canceled, loopVars, reverted_blocks,
                   configVars, storeVars, runtime_hosts, iteration,
                   dispatched, poi_supported, poi_cache, poi_store,
                   evictVars, registryVars>>

\* The head of process_block for a block with its triggers:
\* supports_proof_of_indexing (Err is returned) decides between
\* Some(ProofOfIndexing::new(block_ptr.number)) and None.
Poi_New(reply) ==
    /\ pc = "poi_new"
    /\ \E ts \in PoiBlocks :
          /\ block' = [block EXCEPT !.triggers = ts]
          /\ trigger_iter' = ts
    /\ IF reply = "error"
       THEN /\ ReturnErr(Unknown)
            /\ UNCHANGED poi_streams
       ELSE /\ proof_of_indexing' = poi_supported
            /\ poi_streams' = IF poi_supported
                              THEN ProofOfIndexingNew(BlockPtrAfter(block))
                              ELSE NoProofOfIndexing
            /\ pc' = "poi_dispatch"
            /\ UNCHANGED <<res, hosts, filters, entity_lfu_cache, block_state,
                           needs_restart>>
    /\ UNCHANGED <<managerVars, canceled, loopVars, reverted_blocks,
                   configVars, storeVars, runtime_hosts, iteration,
                   dispatched, poi_supported, poi_cache, poi_store,
                   evictVars, registryVars>>

\* One trigger is processed with proof_of_indexing.cheap_clone(): the
\* runtime writes to the handle if there is one.
Poi_Trigger ==
    /\ pc = "poi_dispatch"
    /\ trigger_iter # <<>>
    /\ trigger_iter' = Tail(trigger_iter)
    /\ poi_streams' = IF proof_of_indexing
                      THEN PoiWrite(poi_streams, Head(trigger_iter))
                      ELSE poi_streams
    /\ UNCHANGED <<managerVars, canceled, loopVars, pc, res, ctxVars,
                   blockVars, configVars, storeVars, runtime_hosts, iteration,
                   dispatched, poi_supported, poi_cache, poi_store,
                   evictVars, registryVars>>

\* `if let Some(proof_of_indexing)`: update_proof_of_indexing, whose Err
\* (a failed entity_cache.get) is returned.  The handle is consumed; the
\* model keeps its streams until the next block for reference.
Poi_Update(ok) ==
    /\ pc = "poi_dispatch"
    /\ trigger_iter = <<>>
    /\ ~proof_of_indexing => ok
    /\ IF ok
       THEN /\ poi_cache' = IF proof_of_indexing
                            THEN UpdateProofOfIndexing(poi_streams, poi_cache,
                                                       poi_store)
                            ELSE poi_cache
            /\ pc' = "poi_commit"
            /\ UNCHANGED <<res, hosts, filters, entity_lfu_cache, block_state,
                           needs_restart, proof_of_indexing>>
       ELSE /\ ReturnErr(Unknown)
            /\ UNCHANGED poi_cache
    /\ UNCHANGED <<managerVars, canceled, loopVars, reverted_blocks, block,
                   configVars, storeVars, dispatchVars, poi_supported,
                   poi_streams, poi_store,
                   evictVars, registryVars>>

\* as_modifications and transact_block_operations put the POI entities set
\* in the entity cache into the store; the loop takes the next block.
Poi_Commit(ok) ==
    /\ pc = "poi_commit"
    /\ IF ok
       THEN /\ poi_store' = [r \in Regions |->
                               IF poi_cache[r] # <<>> THEN poi_cache[r]
                               ELSE poi_store[r]]
            /\ poi_cache' = NoPoiEntities
            /\ store_ptr' = BlockPtrAfter(block)
            /\ last_commit_number' = BlockPtrAfter(block)
            /\ IF block.number < MaxBlock
               THEN /\ block' = [number |-> block.number + 1,
                                 parent |-> block.number, triggers |-> <<>>]
                    /\ pc' = "poi_new"
               ELSE /\ pc' = "poi_done"
                    /\ UNCHANGED block
            /\ UNCHANGED <<res, hosts, filters, entity_lfu_cache, block_state,
                           needs_restart, proof_of_indexing>>
       ELSE /\ ReturnErr(Unknown)
            /\ UNCHANGED <<poi_store, poi_cache, store_ptr,
                           last_commit_number, block>>
    /\ UNCHANGED <<managerVars, canceled, loopVars, reverted_blocks,
                   configVars, store_entities, transact_args, synced_reply,
                   unassign_calls, unfail_calls, fail_subgraph_calls,
                   dispatchVars, poi_supported, poi_streams,
                   evictVars, registryVars>>

PoiNext ==
    \/ \E reply \in {"ok", "error"} : Poi_New(reply)
    \/ Poi_Trigger
    \/ \E ok \in BOOLEAN : Poi_Update(ok)
    \/ \E ok \in BOOLEAN : Poi_Commit(ok)

PoiSpec == PoiInit /\ [][PoiNext]_vars

\* ---------------------------------------------------------- cache eviction
\* The tail of process_block with byte weights: as_modifications returns
\* the cache, it is evicted down to ENTITY_CACHE_SIZE and installed in the
\* context, and the block is committed.

\* usize of the model: the product 1000 * GRAPH_ENTITY_CACHE_SIZE is taken
\* in this width
UsizeModulus == 4096

\* Values of GRAPH_ENTITY_CACHE_SIZE (in KB)
CacheSizeSettings == {0, 1, 2, 5}

\* Byte weights of a cached entity
Weights == {300, 700}

\* lazy_static ENTITY_CACHE_SIZE: 1000 * parse::<usize>(), wrapping where
\* overflow checks are off
EntityCacheSize(setting) == (1000 * setting) % UsizeModulus

RECURSIVE LfuWeight(_, _)
LfuWeight(c, ks) ==
    IF ks = {} THEN 0
    ELSE LET k == CHOOSE x \in ks : TRUE
         IN  c[k].weight + LfuWeight(c, ks \ {k})

\* LfuCache::evict(max_weight): entries are removed lowest frequency first
\* until the total weight is at most max_weight
RECURSIVE EvictLfu(_, _)
EvictLfu(c, max_weight) ==
    IF LfuWeight(c, LfuKeys) <= max_weight
    THEN c
    ELSE LET cached == {k \in LfuKeys : c[k] # NoEntry}
             k == CHOOSE x \in cached :
                      \A y \in cached : c[x].freq <= c[y].freq
         IN  EvictLfu([c EXCEPT ![k] = NoEntry], max_weight)

\* The cache as_modifications returns: the context's cache with the
\* entities the block read or wrote added or updated
TouchedCache(c, touched, weight_of) ==
    [k \in LfuKeys |->
        IF k \in touched
        THEN [weight |-> weight_of[k], freq |-> c[k].freq + 1]
        ELSE c[k]]

EvictInit ==
    /\ instances = [d \in DeploymentIds |-> 1]
    /\ subgraph_count = 1
    /\ start_pc = "started"
    /\ stops = 0
    /\ canceled = {}
    /\ streams = 1
    /\ stream_filters = {"S"}
    /\ pc = "as_modifications"
    /\ first_run = TRUE
    /\ event = [type |-> "Block", ptr |-> 1, outcome |-> "none"]
    /\ res = NoResult
    /\ hosts = <<[name |-> "S", created_at |-> -1]>>
    /\ filters = {"S"}
    /\ entity_lfu_cache = EmptyCache
    /\ reverted_blocks = 0
    /\ block = [number |-> 1, parent |-> 0, triggers |-> <<>>]
    /\ block_state = NewBlockState(EmptyCache)
    /\ needs_restart = FALSE
    /\ proof_of_indexing = FALSE
    /\ nonFatalErrors = FALSE
    /\ DISABLE_FAIL_FAST = FALSE
    /\ store_ptr = 0
    /\ store_entities = <<EmptyEntities>>
    /\ transact_args = NoCall
    /\ synced_reply = "none"
    /\ unassign_calls = <<>>
    /\ unfail_calls = 0
    /\ fail_subgraph_calls = <<>>
    /\ last_commit_number = 0
    /\ trigger_iter = <<>>
    /\ runtime_hosts = <<>>
    /\ iteration = 0
    /\ dispatched = <<>>
    /\ poi_supported = FALSE
    /\ poi_streams = NoProofOfIndexing
    /\ poi_cache = NoPoiEntities
    /\ poi_store = NoPoiEntities
    /\ cache_size_env \in CacheSizeSettings
    /\ modified_cache = NoWeightedCache
    /\ state_lfu_cache = NoWeightedCache
    /\ loop_pc = [t \in Threads |-> "idle"]
    /\ loop_guard = [t \in Threads |-> NoGuard]

\* Evict_Install that installs the cache as as_modifications returned it
Evict_Install_Unevicted ==
    /\ pc = "as_modifications"
    /\ \E touched \in SUBSET LfuKeys :
          \E weight_of \in [touched -> Weights] :
             LET returned == TouchedCache(state_lfu_cache, touched, weight_of)
             IN  /\ modified_cache' = returned
                 /\ state_lfu_cache' = returned
    /\ pc' = "transact"
    /\ UNCHANGED <<managerVars, canceled, loopVars, res, ctxVars, blockVars,
                   configVars, storeVars, dispatchVars, poiVars,
                   cache_size_env, registryVars>>

\* as_modifications, cache.evict(*ENTITY_CACHE_SIZE) and
\* ctx.state.entity_lfu_cache = cache
Evict_Install ==
    /\ pc = "as_modifications"
    /\ \E touched \in SUBSET LfuKeys :
          \E weight_of \in [touched -> Weights] :
             LET returned == TouchedCache(state_lfu_cache, touched, weight_of)
             IN  /\ modified_cache' = returned
                 /\ state_lfu_cache' =
                        EvictLfu(returned, EntityCacheSize(cache_size_env))
    /\ pc' = "transact"
    /\ UNCHANGED <<managerVars, canceled, loopVars, res, ctxVars, blockVars,
                   configVars, storeVars, dispatchVars, poiVars,
                   cache_size_env, registryVars>>

\* With overflow checks on, the first use of ENTITY_CACHE_SIZE panics when
\* the product does not fit
Evict_SizeOverflow ==
    /\ pc = "as_modifications"
    /\ 1000 * cache_size_env >= UsizeModulus
    /\ pc' = "panicked"
    /\ UNCHANGED <<managerVars, canceled, loopVars, res, ctxVars, blockVars,
                   configVars, storeVars, dispatchVars, poiVars, evictVars, registryVars>>

\* transact_block_operations: the block is committed and the loop goes on
\* to the next block with the installed cache, or the error is returned and
\* the context dropped
Evict_Transact(ok) ==
    /\ pc = "transact"
    /\ IF ok
       THEN /\ store_ptr' = BlockPtrAfter(block)
            /\ last_commit_number' = BlockPtrAfter(block)
            /\ IF block.number < MaxBlock
               THEN /\ block' = [number |-> block.number + 1,
                                 parent |-> block.number, triggers |-> <<>>]
                    /\ pc' = "as_modifications"
               ELSE /\ pc' = "committed"
                    /\ UNCHANGED block
            /\ UNCHANGED <<res, state_lfu_cache>>
       ELSE /\ res' = Unknown
            /\ pc' = "match"
            /\ state_lfu_cache' = NoWeightedCache
            /\ UNCHANGED <<store_ptr, last_commit_number, block>>
    /\ UNCHANGED <<managerVars, canceled, loopVars, ctxVars, block_state,
                   needs_restart, proof_of_indexing, configVars,
                   store_entities, transact_args, synced_reply,
                   unassign_calls, unfail_calls, fail_subgraph_calls,
                   dispatchVars, poiVars, cache_size_env, modified_cache,
                   registryVars>>

EvictNext ==
    \/ Evict_Install
    \/ Evict_SizeOverflow
    \/ \E ok \in BOOLEAN : Evict_Transact(ok)

EvictSpec == EvictInit /\ [][EvictNext]_vars

\* ------------------------------------------------------------ the registry
\* The registry of cancel guards with more than one run_subgraph thread of
\* the deployment: nothing keeps start_subgraph from being called again for
\* a deployment that is running.  Of the loop only what touches the registry
\* and the guards is kept; how a block comes to its result is left open.
RegistryInit ==
    /\ Init
    /\ ~nonFatalErrors
    /\ ~DISABLE_FAIL_FAST

\* start_subgraph returning Ok: a thread running run_subgraph is spawned
Reg_Start(t) ==
    /\ loop_pc[t] = "idle"
    /\ loop_pc' = [loop_pc EXCEPT ![t] = "build"]
    /\ subgraph_count' = subgraph_count + 1
    /\ UNCHANGED <<instances, start_pc, stops, canceled, loopVars, pc, res,
                   ctxVars, blockVars, configVars, dispatchVars, poiVars,
                   evictVars, storeVars, loop_guard>>

\* CancelGuard::new() and the stream built cancelable by it
Reg_Build(t) ==
    /\ loop_pc[t] = "build"
    /\ streams < MaxStreams
    /\ streams' = streams + 1
    /\ loop_guard' = [loop_guard EXCEPT ![t] = streams + 1]
    /\ loop_pc' = [loop_pc EXCEPT ![t] = "insert"]
    /\ UNCHANGED <<managerVars, canceled, stream_filters, first_run, event,
                   pc, res, ctxVars, blockVars, configVars, dispatchVars,
                   poiVars, evictVars, storeVars>>

\* Reg_Insert whose insert leaves the guard it replaces alive
Reg_Insert_KeepsPrevious(t) ==
    /\ loop_pc[t] = "insert"
    /\ instances' = [instances EXCEPT ![Indexed] = loop_guard[t]]
    /\ loop_pc' = [loop_pc EXCEPT ![t] = "running"]
    /\ UNCHANGED <<subgraph_count, start_pc, stops, canceled, loopVars, pc,
                   res, ctxVars, blockVars, configVars, dispatchVars, poiVars,
                   evictVars, storeVars, loop_guard>>

\* instances.write().insert(deployment_id, block_stream_canceler): the guard
\* the map held for the id is returned and dropped
Reg_Insert(t) ==
    /\ loop_pc[t] = "insert"
    /\ instances' = [instances EXCEPT ![Indexed] = loop_guard[t]]
    /\ canceled' = IF instances[Indexed] # NoGuard
                   THEN canceled \cup {instances[Indexed]} ELSE canceled
    /\ loop_pc' = [loop_pc EXCEPT ![t] = "running"]
    /\ UNCHANGED <<subgraph_count, start_pc, stops, loopVars, pc, res,
                   ctxVars, blockVars, configVars, dispatchVars, poiVars,
                   evictVars, storeVars, loop_guard>>

\* Ok((ctx, true)): instances.remove(deployment_id) and break
Reg_Restart(t) ==
    /\ loop_pc[t] = "running"
    /\ instances' = [instances EXCEPT ![Indexed] = NoGuard]
    /\ canceled' = IF instances[Indexed] # NoGuard
                   THEN canceled \cup {instances[Indexed]} ELSE canceled
    /\ loop_pc' = [loop_pc EXCEPT ![t] = "build"]
    /\ UNCHANGED <<subgraph_count, start_pc, stops, loopVars, pc, res,
                   ctxVars, blockVars, configVars, dispatchVars, poiVars,
                   evictVars, storeVars, loop_guard>>

\* Err(Canceled), from the cancel check of a canceled stream or from
\* fail-fast: return Ok(())
Reg_Canceled(t) ==
    /\ loop_pc[t] = "running"
    /\ loop_pc' = [loop_pc EXCEPT ![t] = "done_ok"]
    /\ UNCHANGED <<managerVars, canceled, loopVars, pc, res, ctxVars,
                   blockVars, configVars, dispatchVars, poiVars, evictVars,
                   storeVars, loop_guard>>

\* Err(e), or a failed unfail: fail_subgraph and return Err
Reg_Failed(t) ==
    /\ loop_pc[t] = "running"
    /\ loop_pc' = [loop_pc EXCEPT ![t] = "done_err"]
    /\ UNCHANGED <<managerVars, canceled, loopVars, pc, res, ctxVars,
                   blockVars, configVars, dispatchVars, poiVars, evictVars,
                   storeVars, loop_guard>>

RegistryNext ==
    \/ \E id \in DeploymentIds : StopSubgraph(id)
    \/ \E t \in Threads : Reg_Start(t)
    \/ \E t \in Threads : Reg_Build(t)
    \/ \E t \in Threads : Reg_Insert(t)
    \/ \E t \in Threads : Reg_Restart(t)
    \/ \E t \in Threads : Reg_Canceled(t)
    \/ \E t \in Threads : Reg_Failed(t)

RegistrySpec == RegistryInit /\ [][RegistryNext]_vars

\* ---------------------------------------------------------------- claims
\* A step in which process_block calls store.transact_block_operations
TransactCalled == pc = "pb_commit" /\ transact_args'.called

\* A step in which transact_block_operations succeeds
Committed == pc = "pb_commit" /\ pc' = "pb_failfast"

\* C1: once stop_subgraph has removed and dropped the loop's CancelGuard (the
\* handle of the running stream reports canceled), process_block makes no
\* transact_block_operations call, in every interleaving of stop_subgraph with
\* the stages of process_block.
C1_NoCommitAfterStop == [][IsCanceled(streams) => ~TransactCalled]_vars

\* C2: when the loop has read the cancel marker from the block stream, its
\* next step leaves run_subgraph with Ok(()) (and without fail_subgraph).
C2_CancelMarkerEndsLoop ==
    [][(pc = "event" /\ event.type = "Cancel" /\ pc' # pc)
          => (pc' = "done_ok" /\ UNCHANGED fail_subgraph_calls)]_vars

\* C3: stop_subgraph for a deployment id that is not in the registry changes
\* neither the registry nor the deployment_count gauge.
C3_StopUnknownIsNoOp ==
    [][\A id \in DeploymentIds :
          (StopSubgraph(id) /\ instances[id] = NoGuard)
             => UNCHANGED <<instances, subgraph_count>>]_vars

\* C4 as stated: every successful commit carries a block number strictly
\* greater than the number of the commit before it, reverts included.
C4_CommitsStrictlyIncreasing ==
    [][Committed => transact_args'.ptr > last_commit_number]_vars

\* C4 as amended: every successful commit carries the number of the block
\* processed, which is strictly greater than the deployment's block pointer at
\* the time of the call, and moves the pointer to it; so the committed numbers
\* increase strictly between two successful reverts.
C4_CommitAdvancesPointer ==
    [][Committed => /\ transact_args'.ptr = block.number
                    /\ transact_args'.ptr > store_ptr
                    /\ store_ptr' = transact_args'.ptr
                    /\ last_commit_number' = transact_args'.ptr
                    /\ (last_commit_number >= transact_args'.ptr
                           => reverted_blocks >= transact_args'.ptr)]_vars

\* A block has been committed at the height of the last reverted block.
C4_RecommitAfterRevert ==
    pc = "pb_failfast" /\ reverted_blocks >= 1 /\ store_ptr = reverted_blocks

\* C5: without the nonFatalErrors feature, a block whose triggers recorded
\* deterministic errors makes process_block return Deterministic(first error)
\* without any transact_block_operations call or store change, and the loop
\* then calls fail_subgraph with deterministic = TRUE and exits with an error.
C5_DeterministicErrorFailsBlock ==
    [][/\ (pc = "pb_gate" /\ block_state.errors # <<>> /\ ~nonFatalErrors
              /\ pc' # pc)
          => /\ pc' = "match"
             /\ res' = Deterministic(Head(block_state.errors))
             /\ ~transact_args'.called
             /\ UNCHANGED <<store_ptr, store_entities, last_commit_number>>
       /\ (pc = "match" /\ res.type = "Deterministic" /\ pc' # pc)
          => /\ pc' = "done_err"
             /\ fail_subgraph_calls' = Append(fail_subgraph_calls, TRUE)
             /\ ~transact_args'.called
             /\ UNCHANGED <<store_ptr, store_entities, last_commit_number>>]_vars

\* The loop has exited after block 1 failed with its first deterministic error.
C5_FailedDeterministically ==
    /\ pc = "done_err"
    /\ res = Deterministic(1)
    /\ fail_subgraph_calls = <<TRUE>>
    /\ store_ptr = 0

\* C6: with the nonFatalErrors feature a block with deterministic errors is
\* not turned into a Deterministic failure; when its commit succeeds, one
\* transact_block_operations call carried the block pointer, the entity
\* modifications, the data sources and the errors together, and the store is
\* at that block with the block's writes applied.
C6_ErrorsCommittedWithBlock ==
    /\ (res.type = "Deterministic" => ~nonFatalErrors)
    /\ (pc = "pb_failfast" /\ block_state.errors # <<>>)
          => /\ nonFatalErrors
             /\ transact_args.called
             /\ transact_args.ptr = block.number
             /\ transact_args.errors = block_state.errors
             /\ transact_args.data_sources = block_state.data_sources
             /\ store_ptr = block.number
             /\ Len(store_entities) = store_ptr + 1
             /\ \A k \in Keys :
                   /\ transact_args.mods[k] \in {NotCached, block_state.writes[k]}
                   /\ CurrentEntities[k] =
                         IF block_state.writes[k] # NotCached
                         THEN block_state.writes[k]
                         ELSE store_entities[store_ptr][k]

\* A block with an error and an entity change has been committed.
C6_CommittedWithErrors ==
    /\ pc = "pb_failfast"
    /\ block_state.errors # <<>>
    /\ transact_args.mods["e"] # NotCached
    /\ transact_args.errors = block_state.errors

\* C7 as stated: whenever the deployment is found not synced after a commit
\* with errors, process_block returns Canceled and fail_subgraph is not called.
C7_FailFastReturnsCanceled ==
    (synced_reply = "not_synced" /\ pc \in {"match", "done_ok", "done_err"})
       => (res = Canceled /\ fail_subgraph_calls = <<>>)

\* C7 as amended: unassign_subgraph is called at most once, only after the
\* successful commit of a block with errors, with fail-fast not disabled and
\* the deployment reported not synced.  When the call succeeds process_block
\* returns Canceled and the loop exits with Ok without fail_subgraph; when it
\* fails process_block returns Unknown.  With fail-fast disabled, or the
\* deployment reported synced, there is no unassign and process_block returns
\* Ok, so the loop continues.
C7_FailFast ==
    /\ Len(unassign_calls) <= 1
    /\ unassign_calls # <<>>
          => /\ synced_reply = "not_synced"
             /\ ~DISABLE_FAIL_FAST
             /\ transact_args.called
             /\ transact_args.errors # <<>>
             /\ store_ptr = transact_args.ptr
             /\ res = (IF unassign_calls[1] THEN Canceled ELSE Unknown)
    /\ (synced_reply = "not_synced" /\ pc \in {"match", "done_ok", "done_err"})
          => unassign_calls # <<>>
    /\ pc = "done_ok" => (res = Canceled /\ fail_subgraph_calls = <<>>)
    /\ (pc = "match" /\ res = Canceled) => fail_subgraph_calls = <<>>
    /\ (/\ pc = "match"
        /\ transact_args.called
        /\ transact_args.errors # <<>>
        /\ store_ptr = transact_args.ptr
        /\ (DISABLE_FAIL_FAST \/ synced_reply = "synced"))
          => (res.type = "Ok" /\ unassign_calls = <<>>)

\* The loop has exited cleanly after a fail-fast unassign.
C7_UnassignedAndCanceled ==
    /\ pc = "done_ok"
    /\ unassign_calls = <<TRUE>>
    /\ synced_reply = "not_synced"
    /\ fail_subgraph_calls = <<>>

\* C8: store.unfail is called at most once, and never before some block has
\* been committed.
C8_UnfailOnlyAfterCommit ==
    /\ unfail_calls <= 1
    /\ unfail_calls > 0 => last_commit_number > 0

\* C9: after a successful Revert(ptr) the store is at the parent of ptr, no
\* runtime host created in a block above the parent is left, the
\* EntityLfuCache is empty, the reverted_blocks gauge is ptr.number and the
\* loop is reading the next event.
C9_RevertRestoresParent ==
    event.outcome = "reverted"
       => /\ pc = "read"
          /\ store_ptr = ParentPtr(LoadedBlock(event.ptr))
          /\ Len(store_entities) = store_ptr + 1
          /\ \A i \in 1..Len(hosts) : hosts[i].created_at <= store_ptr
          /\ entity_lfu_cache = EmptyCache
          /\ reverted_blocks = event.ptr

\* A revert has removed a dynamic data source (its filters stay merged).
C9_RevertedDynamicSource ==
    /\ event.outcome = "reverted"
    /\ "A" \in filters
    /\ "A" \notin HostNames(hosts)

\* C10: a Revert whose load_blocks or revert_block_operations fails leaves the
\* runtime hosts, the EntityLfuCache, the filters, the reverted_blocks gauge
\* and the store untouched, calls no fail_subgraph, and the loop goes on to
\* read the next event.
C10_FailedRevertContinues ==
    [][(pc = "event" /\ event.type = "Revert"
           /\ event'.outcome \in {"load_blocks", "revert_block_operations"})
          => /\ pc' = "read"
             /\ UNCHANGED <<hosts, entity_lfu_cache, filters, reverted_blocks,
                            store_ptr, store_entities, fail_subgraph_calls>>]_vars

\* A revert has failed while the context held a dynamic data source and a
\* non-empty cache.
C10_FailedRevertSeen ==
    /\ pc = "read"
    /\ event.outcome \in {"load_blocks", "revert_block_operations"}
    /\ entity_lfu_cache # EmptyCache
    /\ "A" \in HostNames(hosts)

\* C11: a PossibleReorg of the primary dispatch makes process_block return
\* Ok with needs_restart = TRUE, with no transact_block_operations,
\* fail_subgraph or unassign call and no store change, the same runtime hosts
\* and filters and an empty EntityLfuCache; the loop then removes its guard
\* and goes to build a new block stream.
C11_PrimaryReorgRestarts ==
    [][/\ (pc = "pb_dispatch" /\ res'.type = "Ok")
          => /\ res' = Ok(TRUE)
             /\ pc' = "match"
             /\ entity_lfu_cache' = EmptyCache
             /\ UNCHANGED <<hosts, filters, store_ptr, store_entities,
                            transact_args, fail_subgraph_calls, unassign_calls>>
       /\ (pc = "match" /\ res = Ok(TRUE) /\ ~transact_args.called /\ pc' # pc)
          => /\ pc' = "build"
             /\ instances'[Indexed] = NoGuard
             /\ UNCHANGED <<hosts, filters, entity_lfu_cache, store_ptr,
                            store_entities, fail_subgraph_calls,
                            unassign_calls>>]_vars

\* C12: once a trigger dispatched to newly created data sources has raised
\* PossibleReorg, process_block has returned Unknown without a
\* transact_block_operations call, the block is not committed, and the loop
\* only calls fail_subgraph with deterministic = FALSE and exits with an
\* error; it never restarts.
C12_ExpansionReorgIsFatal ==
    event.outcome = "PossibleReorg"
       => /\ pc \in {"match", "done_err"}
          /\ res = Unknown
          /\ ~transact_args.called
          /\ store_ptr < block.number
          /\ fail_subgraph_calls = (IF pc = "done_err" THEN <<FALSE>> ELSE <<>>)

\* The loop has exited after a PossibleReorg in the expansion.
C12_ExpansionReorgFailed ==
    /\ event.outcome = "PossibleReorg"
    /\ pc = "done_err"
    /\ fail_subgraph_calls = <<FALSE>>

\* C13: fail_subgraph is called at most once, only by a loop that has exited
\* on a Deterministic or Unknown result of process_block, with
\* deterministic = TRUE exactly for Deterministic; a loop that has exited on
\* such a result has made the call, a loop that exited on Canceled has made
\* none, and no event is read after the call.
C13_ErrorFailsSubgraphOnce ==
    /\ Len(fail_subgraph_calls) <= 1
    /\ fail_subgraph_calls # <<>>
          => /\ pc = "done_err"
             /\ res.type \in {"Deterministic", "Unknown"}
             /\ fail_subgraph_calls = <<res.type = "Deterministic">>
    /\ (pc = "done_err" /\ res.type \in {"Deterministic", "Unknown"})
          => fail_subgraph_calls # <<>>
    /\ pc = "done_ok" => fail_subgraph_calls = <<>>
    /\ res.type \in {"Deterministic", "Unknown", "Canceled"}
          => pc \in {"match", "done_err", "done_ok"}

\* The loop has exited on a block whose transact_block_operations failed.
C13_FailedTransactReported ==
    /\ pc = "done_err"
    /\ transact_args.called
    /\ store_ptr < block.number
    /\ res = Unknown
    /\ fail_subgraph_calls = <<FALSE>>

\* C14: start has added one to the gauge exactly when start_subgraph_inner
\* succeeded (every stop_subgraph call takes one off); while start has not
\* succeeded, and after it failed, no loop runs, no stream is built and the
\* registry holds no cancel guard for the deployment.
C14_GaugeIncrementedOnSuccess ==
    /\ subgraph_count + stops = (IF start_pc = "started" THEN 1 ELSE 0)
    /\ start_pc # "started"
          => /\ pc = "idle"
             /\ streams = 0
             /\ instances[Indexed] = NoGuard
             /\ canceled = {}

\* start has failed and the gauge still reads zero.
C14_StartFailed ==
    /\ start_pc = "failed"
    /\ subgraph_count = 0
    /\ stops = 0

\* C15: the first stop_subgraph(id) issued after start returned successfully
\* finds a cancel guard of the deployment in the registry (and drops it).
C15_StopAfterStartFindsGuard ==
    [][\A id \in DeploymentIds :
          (start_pc = "started" /\ stops = 0 /\ StopSubgraph(id))
             => /\ instances[id] # NoGuard
                /\ instances[id] \in canceled']_vars

\* C16: the gauge is never negative and equals the number of deployments
\* whose indexing loop is running (spawned and not yet exited).
C16_GaugeCountsRunningLoops ==
    /\ subgraph_count >= 0
    /\ subgraph_count =
          Cardinality({d \in DeploymentIds :
                         /\ d = Indexed
                         /\ pc \notin {"idle", "done_ok", "done_err",
                                        "panicked"}})

\* C17 (as claimed): when process_block returns needs_restart = TRUE the
\* loop removes the guard from the registry and goes to build a new stream
\* without reading another event.
C17_RestartAlwaysRebuilds ==
    [][(pc = "match" /\ res.type = "Ok" /\ res.restart /\ pc' # pc)
          => /\ pc' = "build"
             /\ instances'[Indexed] = NoGuard]_vars

\* C17 (amended): when process_block returns needs_restart = TRUE the loop
\* either exits because the first-run unfail failed, or removes (and so
\* drops) the registered guard and goes to build a new stream without
\* reading another event; the new stream is built from the context's current
\* filters, which cover every runtime host, and its guard is installed in
\* the registry before its first event is read, the filters being still the
\* ones it was built with.
C17_RestartRebuildsStream ==
    [][/\ (pc = "match" /\ res.type = "Ok" /\ res.restart /\ pc' # pc)
          => IF pc' = "done_err"
             THEN /\ first_run
                  /\ unfail_calls' = unfail_calls + 1
                  /\ UNCHANGED <<instances, canceled, streams>>
             ELSE /\ pc' = "build"
                  /\ instances'[Indexed] = NoGuard
                  /\ instances[Indexed] # NoGuard
                        => instances[Indexed] \in canceled'
                  /\ UNCHANGED <<filters, hosts, streams, event>>
       /\ (pc = "build" /\ pc' # pc)
          => /\ pc' = "insert"
             /\ streams' = streams + 1
             /\ stream_filters' = filters
             /\ HostNames(hosts) \subseteq filters
             /\ UNCHANGED <<filters, event>>
       /\ (pc = "insert" /\ pc' # pc)
          => /\ pc' = "read"
             /\ instances'[Indexed] = streams
             /\ UNCHANGED <<filters, stream_filters, event>>
       /\ (pc = "read" /\ pc' # pc)
          => /\ stream_filters = filters
             /\ instances[Indexed] = streams
                   \/ (instances[Indexed] = NoGuard /\ IsCanceled(streams))]_vars

\* The loop has restarted after a block created a data source: the second
\* stream was built with the template's filter and its guard is registered.
C17_RestartedWithNewFilters ==
    /\ pc = "read"
    /\ streams = 2
    /\ stream_filters = {"S", "A"}
    /\ instances[Indexed] = 2
    /\ store_ptr = 1

\* C18: as long as the loop holds the context (an error return drops it with
\* the loop), every step leaves the composite filters a superset of their
\* previous value; a Revert leaves them as they are.
C18_FiltersOnlyGrow ==
    [][/\ hosts' # <<>> => filters \subseteq filters'
       /\ (pc = "event" /\ event.type = "Revert") => filters' = filters]_vars

\* A Revert has removed the dynamic data source and the filters still hold
\* its filter.
C18_RevertedSourceStillFiltered ==
    /\ event.type = "Revert"
    /\ event.outcome = "reverted"
    /\ HostNames(hosts) = {"S"}
    /\ filters = {"S", "A"}

\* C19: the assertion at the reinstatement of the cache never fails: while
\* process_block holds the moved-out cache the context's placeholder is
\* empty; after the reinstatement the context holds the evicted cache of the
\* block's modifications; and between blocks the context's cache is either
\* empty or the cache, within ENTITY_CACHE_SIZE, left by the latest commit,
\* which is the block the store points at.
C19_PlaceholderStaysEmpty ==
    /\ pc # "panicked"
    /\ pc \in {"pb_expand", "pb_gate", "pb_cancel", "pb_commit"}
          => entity_lfu_cache = EmptyCache
    /\ pc \in {"pb_failfast", "pb_unassign"}
          => entity_lfu_cache =
                Evict(AsModifications(block_state).entity_lfu_cache,
                      ENTITY_CACHE_SIZE)
    /\ (pc \in {"build", "insert", "read", "event", "pb_dispatch"}
           /\ entity_lfu_cache # EmptyCache)
          => /\ last_commit_number = store_ptr
             /\ store_ptr > 0
             /\ CacheWeight(entity_lfu_cache, Keys) <= ENTITY_CACHE_SIZE

\* The second block has been committed with a cache that was moved out
\* non-empty and reinstated.
C19_ReinstatedOverUsedCache ==
    /\ pc = "pb_failfast"
    /\ store_ptr = 2
    /\ block_state.lfu # EmptyCache
    /\ entity_lfu_cache # EmptyCache

\* C20: whenever the loop is between blocks or starts processing a block,
\* every key the context's EntityLfuCache holds has exactly the value
\* currently committed in the store for that key.
C20_CacheAgreesWithStore ==
    pc \in {"build", "insert", "read", "event", "pb_dispatch"}
       => \A k \in Keys :
             entity_lfu_cache[k] # NotCached
                => entity_lfu_cache[k] = CurrentEntities[k]

\* A block is about to be processed with a non-empty cache, after a restart
\* and a revert.
C20_CachedAfterRevertAndRestart ==
    /\ pc = "pb_dispatch"
    /\ entity_lfu_cache # EmptyCache
    /\ reverted_blocks > 0
    /\ streams = 2

\* C21: the process_trigger calls of process_triggers are made on the
\* triggers the block stream supplied, in exactly that order and without
\* gaps; the first call gets the fresh block state and every later call the
\* state the call before it returned; only the last call can have returned a
\* MappingError, and after it no further trigger is dispatched; when
\* process_triggers returns Ok every supplied trigger has been dispatched.
C21_TriggersDispatchedInOrder ==
    LET supplied == TriggersInBlock(block, stream_filters)
        n == Len(PrimaryCalls)
    IN  /\ n <= Len(supplied)
        /\ \A i \in 1..n : PrimaryCalls[i].trigger = supplied[i]
        /\ n > 0 => PrimaryCalls[1].input = NewBlockState(EmptyCache)
        /\ \A i \in 1..(n - 1) :
              /\ PrimaryCalls[i].status = "Ok"
              /\ PrimaryCalls[i + 1].input = PrimaryCalls[i].output
        /\ pc = "process_triggers"
              => /\ trigger_iter = SubSeq(supplied, n + 1, Len(supplied))
                 /\ n > 0 => block_state = PrimaryCalls[n].output
        /\ (n > 0 /\ PrimaryCalls[n].status # "Ok")
              => /\ pc = "match"
                 /\ trigger_iter = <<>>
                 /\ Len(dispatched) = n
        /\ pc \in {"pb_expand", "expand_triggers", "pb_gate"}
              => n = Len(supplied)

\* The second of three supplied triggers returned a MappingError after the
\* first one had written an entity; the third was not dispatched.
C21_StoppedAtSecondTrigger ==
    /\ Len(TriggersInBlock(block, stream_filters)) = 3
    /\ Len(dispatched) = 2
    /\ dispatched[1].output.writes # EmptyCache
    /\ dispatched[2].status = "Unknown"
    /\ pc = "match"

\* C22: the expansion is breadth-first.  The calls are made iteration by
\* iteration; the calls of iteration n are made on the triggers, in the
\* block, of exactly the data sources iteration n instantiated, all of them
\* once the iteration is over; a new iteration starts only when the triggers
\* of the running one are used up; the data sources an iteration
\* instantiates were all created by calls of the iteration before it, and no
\* data source is instantiated twice.
C22_ExpansionIsBreadthFirst ==
    /\ Len(runtime_hosts) = iteration
    /\ \A i \in 1..Len(dispatched) : \A j \in i..Len(dispatched) :
          dispatched[i].iteration <= dispatched[j].iteration
    /\ \A n \in 1..iteration :
          LET due == TriggersInBlock(block, SeqToSet(runtime_hosts[n]))
              made == CallTriggers(IterationCalls(n))
          IN  /\ Len(made) <= Len(due)
              /\ made = SubSeq(due, 1, Len(made))
              /\ (n < iteration \/ pc \in {"pb_expand", "pb_gate"})
                    => made = due
              /\ \A k \in 1..Len(runtime_hosts[n]) :
                    /\ \E c \in 1..Len(dispatched) :
                          /\ dispatched[c].iteration = n - 1
                          /\ runtime_hosts[n][k]
                                \in SeqToSet(dispatched[c].output.created)
                    /\ \A m \in 1..iteration : \A l \in 1..Len(runtime_hosts[m]) :
                          runtime_hosts[m][l] = runtime_hosts[n][k]
                             => (m = n /\ l = k)
    /\ pc = "pb_expand" => trigger_iter = <<>>

\* Two generations: a trigger of the static data source created A, a
\* trigger of A created B, and B's trigger was dispatched in iteration 2.
C22_TwoGenerations ==
    /\ pc = "pb_gate"
    /\ iteration = 2
    /\ runtime_hosts = << <<"A">>, <<"B">> >>
    /\ Len(IterationCalls(2)) = 1

\* C23: a cascade is cut off by a deterministic error.  Once the expansion
\* of one block has run an iteration for every data source the templates
\* of the model can create, each iteration instantiating a data source
\* created by the one before, process_block has returned a Deterministic
\* error.
C23_CascadeEndsWithDeterministicError ==
    (/\ iteration >= Cardinality({t.source : t \in ChainTriggerKinds} \ {"S"})
     /\ \A n \in 1..iteration : runtime_hosts[n] # <<>>)
       => /\ pc = "match"
          /\ res.type = "Deterministic"

\* The triggers of the block already processed, and the events they wrote
\* for a region
PoiProcessed == SubSeq(block.triggers, 1, Len(block.triggers) - Len(trigger_iter))

PoiEventsOf(ts, r) ==
    LET of_r == SelectSeq(ts, LAMBDA t : t.region = r)
    IN  [i \in 1..Len(of_r) |-> of_r[i].event]

\* C24: proof-of-indexing work is done exactly when the store supports it.
\* Without support the handle is None and no POI stream or POI entity
\* is ever written.  With support the handle is a fresh ProofOfIndexing of
\* the block's number holding only the events of this block's processed
\* triggers, and after update_proof_of_indexing the entity cache holds a
\* POI entity for exactly the regions touched in the block.
C24_PoiOnlyWhenSupported ==
    /\ pc \in {"poi_dispatch", "poi_commit"} =>
          proof_of_indexing = poi_supported
    /\ ~poi_supported =>
          /\ poi_streams = NoProofOfIndexing
          /\ poi_cache = NoPoiEntities
          /\ poi_store = NoPoiEntities
    /\ (poi_supported /\ pc \in {"poi_dispatch", "poi_commit"}) =>
          /\ poi_streams.block_number = block.number
          /\ \A r \in Regions :
                poi_streams.streams[r] = PoiEventsOf(PoiProcessed, r)
    /\ pc = "poi_dispatch" => poi_cache = NoPoiEntities
    /\ (poi_supported /\ pc = "poi_commit") =>
          \A r \in Regions :
              (poi_cache[r] # <<>>) <=>
                  (\E i \in 1..Len(block.triggers) :
                       block.triggers[i].region = r)

\* C24 witness: the second block's two triggers were processed and the block
\* is ready to commit on a deployment without POI support
C24_UnsupportedBlockProcessed ==
    /\ pc = "poi_commit"
    /\ ~poi_supported
    /\ block.number = 2
    /\ Len(block.triggers) = 2

\* C29: after update_proof_of_indexing, each region touched in the block has
\* exactly one POI entity set in the entity cache, of type POI_OBJECT and
\* with the region as id, whose digest is made from the region's stream and
\* the digest of the region's previous POI entity (none if there is no such
\* entity); nothing is set for an untouched region, so its stored entity is
\* the previous one.
C29_PoiEntityPerTouchedRegion ==
    (pc = "poi_commit" /\ proof_of_indexing) =>
        \A r \in Regions :
            IF PoiEventsOf(block.triggers, r) # <<>>
            THEN /\ Len(poi_cache[r]) = 1
                 /\ poi_cache[r][1].entity_type = POI_OBJECT
                 /\ poi_cache[r][1].id = r
                 /\ poi_cache[r][1].digest.events =
                        PoiEventsOf(block.triggers, r)
                 /\ poi_cache[r][1].digest.prev =
                        IF poi_store[r] = <<>> THEN <<>>
                        ELSE <<poi_store[r][1].digest>>
            ELSE /\ poi_cache[r] = <<>>
                 /\ EntityCacheGet(poi_cache, poi_store, r) = poi_store[r]

\* C29 witness: the second block touched r1, which has a previous digest,
\* and left r2 alone, which has an entity from the first block
C29_SecondDigestChained ==
    /\ pc = "poi_commit"
    /\ block.number = 2
    /\ poi_cache["r1"] # <<>>
    /\ poi_cache["r1"][1].digest.prev # <<>>
    /\ poi_cache["r2"] = <<>>
    /\ poi_store["r2"] # <<>>

\* C25: after every commit the total byte weight of the cache installed in
\* the context is at most GRAPH_ENTITY_CACHE_SIZE x 1000, and the installed
\* cache is the one as_modifications returned, evicted down to
\* ENTITY_CACHE_SIZE, on every block that reaches the commit.
C25_CacheWithinBudgetAfterCommit ==
    (last_commit_number > 0 /\ pc \in {"as_modifications", "committed"}) =>
        /\ LfuWeight(state_lfu_cache, LfuKeys) <= cache_size_env * 1000
        /\ state_lfu_cache =
               EvictLfu(modified_cache, EntityCacheSize(cache_size_env))

\* C25 witness: the second block was committed after its cache, too heavy as
\* returned, lost an entry but not all of them
C25_EvictedBeforeSecondCommit ==
    /\ pc = "committed"
    /\ last_commit_number = 2
    /\ LfuWeight(modified_cache, LfuKeys) > cache_size_env * 1000
    /\ state_lfu_cache # NoWeightedCache

\* The data source a trigger's handler creates ("" if none)
CreatedBy(t) ==
    CASE t.handler = "Create" -> "A"
      [] t.handler = "CreateB" -> "B"
      [] OTHER -> ""

\* The block's trigger sequence as the stream would supply it with the
\* given data sources in its filters, and the handlers it runs
StreamTriggers(b, sources) ==
    LET ts == SelectSeq(b.triggers, LAMBDA t : t.source \in sources)
    IN  [i \in 1..Len(ts) |-> ts[i].handler]

\* Every trigger of a dynamic data source comes after a trigger creating it
CreatedBeforeUse(b) ==
    \A i \in 1..Len(b.triggers) :
        b.triggers[i].source # "S" =>
            \E j \in 1..(i - 1) :
                CreatedBy(b.triggers[j]) = b.triggers[i].source

\* C26: restart transparency.  When a block in which a primary trigger
\* created a data source has been processed without error, its entity
\* writes (primary triggers first, then the new sources' triggers in the
\* expansion) are the writes that processing the block's trigger sequence
\* with the new sources' triggers in their places would have made.
C26_RestartTransparency ==
    (pc = "pb_gate" /\ needs_restart /\ CreatedBeforeUse(block)) =>
        block_state.writes =
            ProcessTriggers(NewBlockState(EmptyCache),
                            StreamTriggers(block, HostNames(hosts))).state.writes

\* The data sources created by the triggers of the primary dispatch
PrimaryCreated ==
    {CreatedBy(PrimaryCalls[i].trigger) : i \in 1..Len(PrimaryCalls)} \ {""}

\* The modifications the handlers of the given calls make, one after the
\* other, to a store without entities
ModsOfCalls(calls) ==
    LET handlers == [i \in 1..Len(calls) |-> calls[i].trigger.handler]
        final == ProcessTriggers(NewBlockState(EmptyCache), handlers).state
    IN  [k \in Keys |->
            IF final.writes[k] # NotCached /\ final.writes[k] # NoEntity
            THEN final.writes[k] ELSE NotCached]

\* C27 as stated: when process_block is through, without fatal error or
\* cancellation, with a block whose primary triggers created a data source
\* D, the block has been committed by one transact_block_operations call
\* with D among the persisted data sources, and needs_restart is true.
C27_CreatingBlockCommitted ==
    (pc = "match" /\ res.type = "Ok" /\ PrimaryCreated # {}) =>
        /\ transact_args.called
        /\ PrimaryCreated \subseteq SeqToSet(transact_args.data_sources)
        /\ res.restart

\* C27 amended: when process_block is through, without fatal error or
\* cancellation and with every trigger processed without a PossibleReorg,
\* with a block whose primary triggers created a data source D that had no
\* runtime host, the block has been committed by one
\* transact_block_operations call; the call has D among the persisted data
\* sources and the modifications made by the primary triggers followed by
\* D's triggers of the block, all of which were dispatched; and
\* needs_restart is true.
C27_CreatingBlockCommittedUnlessReorg ==
    (/\ pc = "match" /\ res.type = "Ok" /\ PrimaryCreated # {}
     /\ \A i \in 1..Len(dispatched) : dispatched[i].status = "Ok") =>
        /\ transact_args.called
        /\ transact_args.ptr = block.number
        /\ PrimaryCreated \subseteq SeqToSet(transact_args.data_sources)
        /\ CallTriggers(PrimaryCalls) = TriggersInBlock(block, {"S"})
        /\ CallTriggers(IterationCalls(1)) =
               TriggersInBlock(block, PrimaryCreated)
        /\ transact_args.mods = ModsOfCalls(dispatched)
        /\ res.restart

\* C27 witness: a block was committed whose primary trigger created A and
\* whose expansion ran A's trigger, which set the entity
C27_CreatedAndCommitted ==
    /\ pc = "match"
    /\ res.type = "Ok"
    /\ transact_args.called
    /\ "A" \in PrimaryCreated
    /\ IterationCalls(1) # <<>>
    /\ transact_args.mods["e"] = Entity

\* The created data sources drained at the head of expansion iteration n:
\* those in the state returned by the last call of the dispatch before it
DrainedAt(n) ==
    LET calls == IterationCalls(n - 1)
    IN  calls[Len(calls)].output.created

\* The data sources instantiated before expansion iteration n
HostedBefore(n) ==
    {"S"} \cup UNION {SeqToSet(runtime_hosts[m]) : m \in 1..(n - 1)}

RECURSIVE Flatten(_)
Flatten(seqs) == IF seqs = <<>> THEN <<>> ELSE Head(seqs) \o Flatten(Tail(seqs))

NoDuplicates(seq) == \A i, j \in 1..Len(seq) : seq[i] = seq[j] => i = j

\* C28: a created data source whose runtime host exists is skipped, and
\* only it.  While a block is processed, no data source has two hosts; each
\* iteration instantiates exactly the drained data sources not yet hosted,
\* once each; the persisted data sources and the filters hold each
\* instantiated data source once and nothing for the skipped ones; and the
\* triggers dispatched in an iteration are those of the data sources it
\* instantiated, never those of a skipped one.
C28_DuplicateDataSourceSkipped ==
    pc \notin {"match", "panicked"} =>
        /\ NoDuplicates([i \in 1..Len(hosts) |-> hosts[i].name])
        /\ HostNames(hosts) = HostedBefore(Len(runtime_hosts) + 1)
        /\ filters = HostNames(hosts)
        /\ block_state.data_sources = Flatten(runtime_hosts)
        /\ NoDuplicates(block_state.data_sources)
        /\ \A n \in 1..Len(runtime_hosts) :
              /\ SeqToSet(runtime_hosts[n]) =
                     SeqToSet(DrainedAt(n)) \ HostedBefore(n)
              /\ \A i \in 1..Len(IterationCalls(n)) :
                     IterationCalls(n)[i].trigger.source
                         \in SeqToSet(runtime_hosts[n])

\* C28 witness: the block was committed after an iteration that drained A,
\* already hosted, and B, which alone was instantiated and persisted
C28_SkippedBesideSibling ==
    /\ pc = "pb_failfast"
    /\ Len(runtime_hosts) = 2
    /\ DrainedAt(2) = <<"A", "B">>
    /\ runtime_hosts[2] = <<"B">>
    /\ transact_args.data_sources = <<"A", "B">>

\* C30: a stream error is not fatal.  The step the loop takes on a stream
\* error goes back to reading the stream and nowhere else, and changes
\* neither the store (no store call), nor the runtime hosts, the filters
\* or the entity cache, nor the stream and its guard; the loop is then in
\* the state in which it read the error, so the same holds for the next.
C30_StreamErrorIsNotFatal ==
    [][(pc = "event" /\ event.type = "Error" /\ pc' # pc) =>
          /\ pc' = "read"
          /\ UNCHANGED <<hosts, filters, entity_lfu_cache, storeVars>>
          /\ UNCHANGED <<streams, stream_filters, instances, canceled,
                         first_run>>]_vars

\* C30 witness: a stream error was handled after a commit that left an
\* entity in the cache, and the loop is reading the stream again
C30_ErrorHandledAfterCommit ==
    /\ pc = "read"
    /\ event.type = "Error"
    /\ last_commit_number > 0
    /\ entity_lfu_cache # EmptyCache
    /\ hosts # <<>>

\* C31: a stop that races with a restart is not lost.  In the loop of a
\* started deployment, once stop_subgraph has returned the registry holds no
\* cancel guard of the deployment (the loop inserts none), and the loop is
\* not reading or processing events of a stream that is not canceled.
C31_StopDuringRestartNotLost ==
    stops > 0 =>
        /\ instances[Indexed] = NoGuard
        /\ pc \in {"read", "event"} => IsCanceled(streams)

\* The block being processed has been committed by transact_block_operations
BlockCommitted ==
    /\ pc \in {"pb_failfast", "pb_unassign", "match"}
    /\ transact_args.called
    /\ store_ptr = transact_args.ptr

\* A step that ends process_block before as_modifications has returned:
\* supports_proof_of_indexing, trigger dispatch (PossibleReorg or Unknown),
\* expansion, the deterministic-error gate, the cancel check, and the POI
\* update or as_modifications failing
EndsBeforeTransact ==
    \/ pc \in {"event", "pb_dispatch", "pb_expand", "pb_gate", "pb_cancel"}
          /\ pc' = "match"
    \/ \E outcome \in {"update_proof_of_indexing", "as_modifications"} :
          PB_Commit(outcome)

\* The store writes of a step: the block pointer and entities, and the
\* unassign_subgraph, unfail and fail_subgraph calls
StoreWritten ==
    <<store_ptr, store_entities, unassign_calls, unfail_calls,
      fail_subgraph_calls>>

\* C32 as stated: transact_block_operations is called at most once for a
\* Block event, and not at all when process_block ends before the commit
\* stage; once a block has been committed, the only store writes before the
\* next event is read are unassign_subgraph and unfail.
C32_OnlyUnassignAndUnfailAfterCommit ==
    [][/\ (transact_args'.called /\ transact_args' # transact_args) =>
              (pc = "pb_commit" /\ ~transact_args.called)
       /\ EndsBeforeTransact => ~transact_args'.called
       /\ BlockCommitted =>
              UNCHANGED <<store_ptr, store_entities, fail_subgraph_calls>>]_vars

\* C32 amended: a Block event is taken up with no transact_block_operations
\* call made, and the call is made at most once, in the commit stage.  A
\* process_block that ends before that stage (PossibleReorg, Unknown from
\* supports_proof_of_indexing, dispatch, expansion, POI update or
\* as_modifications, Deterministic, pre-commit Canceled) has made no call
\* and written nothing to the store.  After the commit, the only store writes
\* before the next event are unassign_subgraph in the fail-fast stage,
\* unfail in the loop's Ok arm, and fail_subgraph when the fail-fast stage
\* ended with Unknown.
C32_OneTransactPerBlock ==
    [][/\ (pc = "event" /\ event.type = "Block") => ~transact_args.called
       /\ (transact_args'.called /\ transact_args' # transact_args) =>
              (pc = "pb_commit" /\ ~transact_args.called)
       /\ EndsBeforeTransact =>
              /\ ~transact_args'.called
              /\ UNCHANGED StoreWritten
       /\ BlockCommitted =>
              /\ UNCHANGED <<store_ptr, store_entities>>
              /\ unassign_calls' # unassign_calls => pc = "pb_unassign"
              /\ unfail_calls' # unfail_calls => res.type = "Ok"
              /\ fail_subgraph_calls' # fail_subgraph_calls =>
                     /\ res.type = "Unknown"
                     /\ fail_subgraph_calls' =
                            Append(fail_subgraph_calls, FALSE)]_vars

\* C32 witness: the loop has exited after fail_subgraph for a block that was
\* committed and whose fail-fast unassign_subgraph failed
C32_FailedAfterCommit ==
    /\ pc = "done_err"
    /\ transact_args.called
    /\ store_ptr = transact_args.ptr
    /\ unassign_calls = <<FALSE>>
    /\ fail_subgraph_calls = <<FALSE>>

\* A thread whose latest guard has been inserted into the registry
GuardInserted(t) == loop_pc[t] \in {"running", "done_ok", "done_err"}

\* C33: the registry holds one guard per deployment id at most: every guard
\* that was inserted and is no longer the registry's entry has been dropped
\* (canceled), in particular the one an insert replaces.  A loop thread
\* empties the entry only in its restart; leaving the loop with Canceled or
\* with an error changes neither the registry nor any guard, so apart from
\* restarts the entry is removed by stop_subgraph alone.
C33_OneGuardPerDeployment ==
    [][/\ \A t \in Threads :
             (GuardInserted(t)' /\ loop_guard'[t] # instances'[Indexed]) =>
                 loop_guard'[t] \in canceled'
       /\ \A id \in DeploymentIds :
             (instances[id] # NoGuard /\ instances'[id] # instances[id]) =>
                 /\ instances[id] \in canceled'
                 /\ instances'[id] = NoGuard =>
                        \/ stops' = stops + 1
                        \/ \E t \in Threads :
                              /\ loop_pc[t] = "running"
                              /\ loop_pc'[t] = "build"
       /\ \A t \in Threads :
             (loop_pc[t] = "running" /\ loop_pc'[t] \in {"done_ok", "done_err"})
                 => UNCHANGED <<instances, canceled>>]_vars

\* C33 witness: a second start of the running deployment has inserted its
\* guard over the first loop's, which is thereby canceled, and the first loop
\* has exited with an error leaving the registry entry in place
C33_SecondStartReplacedGuard ==
    /\ stops = 0
    /\ loop_pc[1] = "done_err"
    /\ loop_pc[2] = "running"
    /\ instances[Indexed] = loop_guard[2]
    /\ loop_guard[1] # NoGuard
    /\ loop_guard[1] # loop_guard[2]
    /\ IsCanceled(loop_guard[1])

====
